---- MODULE Spec2Model ----
(***************************************************************************)
(* Vector memory provider (core/providers/memory/vector_memory):  a store  *)
(* of text memories whose metadata list is kept beside a FAISS IndexFlatL2 *)
(* of their embeddings, with admission filtering, importance scoring,      *)
(* capacity-triggered cleaning, recency fallback and persistence to two    *)
(* files.                                                                  *)
(***************************************************************************)
EXTENDS Integers, Sequences, FiniteSets, TLC

VARIABLES
    faiss_available,  \* self.faiss_available
    index,            \* self.index: None, or an IndexFlatL2 [d, xb]
    metadata,         \* self.metadata: sequence of metadata dicts
    index_file,       \* the file at self.index_path
    metadata_file,    \* the file at self.metadata_path
    memory_filter,    \* config['memory_filter']
    now,              \* the wall clock read by datetime.now()
    pc,               \* "idle", or "save" while save_memory is in its message loop
    pending,          \* the messages the running save_memory has still to process
    caller,           \* the role id on whose behalf the running call was made
    last,             \* what the last step did: inputs, outcome and result
    faults,           \* failed file writes and restarts so far
    tasks,            \* the save_memory coroutines that run side by side
    devices,          \* the rows of the devices table of the SQLite database
    request,          \* the OTA request, or check_or_create_device call, in progress
    listener          \* the MQTTNotificationListener, its worker thread and its stop() call

vars == <<faiss_available, index, metadata, index_file, metadata_file,
          memory_filter, now, pc, pending, caller, last, faults, tasks,
          devices, request, listener>>

-----------------------------------------------------------------------------
(* Bounds of the model                                                     *)

\* config['max_memories'] of the modelled deployment
MaxMemories == 3
\* save_memory is not called once the metadata holds more records than this
MaxLen == 4
\* the longest message list handed to one save_memory call
MaxBatch == 2
\* the last reading of the clock
MaxTime == 2
\* the largest limit handed to query_memory
MaxLimit == 2
\* failed file writes and restarts in one behaviour
MaxFaults == 2

\* clean_threshold = 0.9, as the fraction ThresholdNum / ThresholdDen
ThresholdNum == 9
ThresholdDen == 10
\* int(self.max_memories * 0.7), as the fraction TargetNum / TargetDen
TargetNum == 7
TargetDen == 10
\* the cap of the metadata list when FAISS is unavailable
SimpleCap == 1000
\* config['dimension'] of the modelled deployment
Dimension == 2
\* similarity_threshold = 0.65, in hundredths
SimilarityThresholdPct == 65
\* one unit of a vector component is 1 / VectorScale
VectorScale == 2

-----------------------------------------------------------------------------
(* Strings.  A text is a sequence of tokens; a token is a piece of the     *)
(* string that no searched word straddles.  CharLen is len() of the token. *)
(* The Chinese words of the source are written in pinyin and the line      *)
(* break before a label as "/".                                            *)

OperationWords == {"shezhi", "dakai", "guanbi", "tiaozheng", "kongzhi", "genggai", "qidong", "tingzhi"}
PartOfDayWords == {"shangwu", "xiawu", "wanshang", "zaoshang", "lingchen"}
Devices == {"deng", "kongtiao", "chuanglian", "dianshi", "yinxiang", "wendu", "shidu", "shebei"}
Emotions == {"xihuan", "taoyan", "manyi", "buman", "xiwang", "qidai"}

DateToken == "2026-11-04T"
ClockTailToken == "00:00.000000"
Separators == {":", "."}

\* tokens made of digits only
DigitTokens == {ToString(n) : n \in 0..(MaxTime + 1)}
\* tokens with a digit somewhere, at the end, at the start
DigitHolders == DigitTokens \cup {DateToken, ClockTailToken}
DigitEnders == DigitTokens \cup {ClockTailToken}
DigitStarters == DigitTokens \cup {DateToken, ClockTailToken}
HasDigit(tok) == tok \in DigitHolders
EndsWithDigit(tok) == tok \in DigitEnders
StartsWithDigit(tok) == tok \in DigitStarters
\* tokens that hold digits, a ':' or '.', and digits again
HoldsTimePattern(tok) == tok = ClockTailToken

TwoCharWords == OperationWords \cup PartOfDayWords \cup Emotions

CharLen(tok) ==
    CASE tok = "shijian: " -> 4
      [] tok = "/juese: " -> 5
      [] tok = "/gongju: " -> 5
      [] tok = "/diaoyongID: " -> 7
      [] tok = "/neirong: " -> 5
      [] tok = DateToken -> 11
      [] tok = ClockTailToken -> 12
      [] tok \in DigitTokens -> 2
      [] tok \in Separators -> 1
      [] tok \in TwoCharWords -> 2
      [] tok = "deng" -> 1
      [] tok \in Devices -> 2
      [] tok = "user" -> 4
      [] tok = "assistant" -> 9
      [] tok = "nihao" -> 2
      [] OTHER -> 1

RECURSIVE TextLen(_)
TextLen(text) ==
    IF text = <<>> THEN 0 ELSE CharLen(Head(text)) + TextLen(Tail(text))

\* any(word in text for word in words)
ContainsAny(text, words) == \E i \in 1..Len(text) : text[i] \in words

\* datetime.isoformat() of the clock reading t
IsoFormat(t) == <<DateToken, ToString(t), ":", ClockTailToken>>

-----------------------------------------------------------------------------
(* Messages                                                                *)

\* a message without a timestamp attribute (or with a falsy one)
NoTimestamp == 0

PlainContent == <<"nihao">>
CommandContent == <<"dakai", "deng">>
Contents == {PlainContent, CommandContent}

\* Python's None, as an attribute or dict value
NoneValue == "None"

\* messages without a timestamp, and messages stamped with the earliest time
Messages ==
    [role : {"user"}, content : Contents, timestamp : {NoTimestamp, 1},
     tool_name : {NoneValue}, tool_call_id : {NoneValue}]

\* the timestamp line and the metadata timestamp: message.timestamp if truthy
TimestampOf(message, t) ==
    IF message.timestamp # NoTimestamp THEN message.timestamp ELSE t

_build_memory_text(message, t) ==
    <<"shijian: ">> \o IsoFormat(TimestampOf(message, t))
        \o <<"/juese: ", message.role>>
        \o (IF message.tool_name # NoneValue
            THEN <<"/gongju: ", message.tool_name>> ELSE <<>>)
        \o (IF message.tool_call_id # NoneValue
            THEN <<"/diaoyongID: ", message.tool_call_id>> ELSE <<>>)
        \o <<"/neirong: ">> \o message.content

-----------------------------------------------------------------------------
(* Importance score and admission filter                                   *)

Min(a, b) == IF a < b THEN a ELSE b
Max(a, b) == IF a > b THEN a ELSE b

\* re.search(r'\d+', text)
HasNumber(text) == \E i \in 1..Len(text) : HasDigit(text[i])

\* re.search(r'(\d+[:.]\d+|shangwu|xiawu|wanshang|zaoshang|lingchen)', text)
HasTime(text) ==
    \/ \E i \in 1..Len(text) : HoldsTimePattern(text[i]) \/ text[i] \in PartOfDayWords
    \/ \E i \in 1..(Len(text) - 2) :
          /\ EndsWithDigit(text[i])
          /\ text[i + 1] \in Separators
          /\ StartsWithDigit(text[i + 2])

Bonus(cond, points) == IF cond THEN points ELSE 0

\* A variant of the next definition: every operation word of the text adds
\* its two points
ScorePerMatch(text) ==
    Min(1 + 2 * Cardinality({i \in 1..Len(text) : text[i] \in OperationWords})
          + Bonus(HasNumber(text), 1)
          + Bonus(HasTime(text), 1)
          + Bonus(ContainsAny(text, Devices), 1)
          + Bonus(ContainsAny(text, Emotions), 1),
        10)

_calculate_importance(text) ==
    Min(1 + Bonus(ContainsAny(text, OperationWords), 2)
          + Bonus(HasNumber(text), 1)
          + Bonus(HasTime(text), 1)
          + Bonus(ContainsAny(text, Devices), 1)
          + Bonus(ContainsAny(text, Emotions), 1),
        10)

\* dict.get(key, default)
Get(dict, key, default) == IF key \in DOMAIN dict THEN dict[key] ELSE default

\* A variant of the next definition: a text of exactly the least or the
\* greatest length is rejected
FilterExclusive(text, filter_config) ==
    IF ~Get(filter_config, "enabled", TRUE) THEN TRUE
    ELSE IF \/ TextLen(text) <= Get(filter_config, "min_text_length", 10)
            \/ TextLen(text) >= Get(filter_config, "max_text_length", 3000)
         THEN FALSE
    ELSE IF /\ Get(filter_config, "keywords", {}) # {}
            /\ ~ContainsAny(text, Get(filter_config, "keywords", {}))
         THEN FALSE
    ELSE IF /\ Get(filter_config, "min_importance", 0) > 0
            /\ _calculate_importance(text) < Get(filter_config, "min_importance", 0)
         THEN FALSE
    ELSE TRUE

_filter_memory(text, filter_config) ==
    IF ~Get(filter_config, "enabled", TRUE) THEN TRUE
    ELSE IF \/ TextLen(text) < Get(filter_config, "min_text_length", 10)
            \/ TextLen(text) > Get(filter_config, "max_text_length", 3000)
         THEN FALSE
    ELSE IF /\ Get(filter_config, "keywords", {}) # {}
            /\ ~ContainsAny(text, Get(filter_config, "keywords", {}))
         THEN FALSE
    ELSE IF /\ Get(filter_config, "min_importance", 0) > 0
            /\ _calculate_importance(text) < Get(filter_config, "min_importance", 0)
         THEN FALSE
    ELSE TRUE

-----------------------------------------------------------------------------
(* Embedding service and FAISS index                                       *)

\* _get_embedding returned None
NoVector == <<>>

RECURSIVE CountIn(_, _)
CountIn(text, words) ==
    IF text = <<>> THEN 0
    ELSE (IF Head(text) \in words THEN 1 ELSE 0) + CountIn(Tail(text), words)

\* The vector the embedding service answers for a text: a fixed function of
\* the text, in units of 1 / VectorScale.
CommandWords == OperationWords \cup Devices
EmbeddingOf(text) ==
    <<CountIn(text, CommandWords), 2 * CountIn(text, {"nihao"})>>

\* What one call of the embedding service can do
EmbeddingOutcomes == {"ok", "fail", "wrong_dimension"}

_get_embedding(text, outcome) ==
    CASE outcome = "ok" -> EmbeddingOf(text)
      [] outcome = "wrong_dimension" -> Append(EmbeddingOf(text), 0)
      [] OTHER -> NoVector

\* self.index = None
None == [d |-> 0, xb |-> <<>>]
\* faiss.IndexFlatL2(d)
IndexFlatL2(d) == [d |-> d, xb |-> <<>>]
\* index.add(v) raises unless the vector has the index's dimension
AddRaises(idx, v) == Len(v) # idx.d
IndexAdd(idx, v) == [idx EXCEPT !.xb = Append(@, v)]
ntotal(idx) == Len(idx.xb)

RECURSIVE SumSquares(_, _)
SumSquares(a, b) ==
    IF a = <<>> \/ b = <<>> THEN 0
    ELSE (Head(a) - Head(b)) * (Head(a) - Head(b)) + SumSquares(Tail(a), Tail(b))

\* the squared L2 distance IndexFlatL2 reports, in units of 1 / VectorScale^2
Distance(a, b) == SumSquares(a, b)

\* the label and distance FAISS reports where the index has too few vectors
NoLabel == -1
Infinity == 2147483647

RECURSIVE RankFrom(_, _, _)
RankFrom(idx, q, labels) ==
    IF labels = {} THEN <<>>
    ELSE LET best == CHOOSE i \in labels : \A j \in labels :
                        \/ Distance(idx.xb[i + 1], q) < Distance(idx.xb[j + 1], q)
                        \/ /\ Distance(idx.xb[i + 1], q) = Distance(idx.xb[j + 1], q)
                           /\ i <= j
         IN  <<[distance |-> Distance(idx.xb[best + 1], q), idx |-> best]>>
                 \o RankFrom(idx, q, labels \ {best})

\* index.search(q, k) raises unless q has the index's dimension and k > 0
SearchRaises(idx, q, k) == Len(q) # idx.d \/ k <= 0

\* index.search(q, k): the k nearest labels by ascending distance (ties by
\* ascending label), padded with NoLabel
IndexSearch(idx, q, k) ==
    LET ranked == RankFrom(idx, q, 0..(ntotal(idx) - 1))
    IN  [n \in 1..k |-> IF n <= Len(ranked) THEN ranked[n]
                        ELSE [distance |-> Infinity, idx |-> NoLabel]]

-----------------------------------------------------------------------------
(* Metadata records                                                        *)

\* meta.get('no_embedding', False)
NoEmbedding(meta) == Get(meta, "no_embedding", FALSE)

\* The dict appended when FAISS is unavailable.  saved_for is not a key of the
\* source dict: it notes the role id on whose behalf save_memory was called.
SimpleRecord(message, t, role_id) ==
    [text |-> _build_memory_text(message, t), timestamp |-> t,
     role |-> message.role, saved_for |-> role_id]

\* The dict appended beside an index entry
EmbeddedRecord(message, t, role_id) ==
    [text |-> _build_memory_text(message, t),
     timestamp |-> TimestampOf(message, t),
     role |-> message.role,
     tool_name |-> message.tool_name,
     tool_call_id |-> message.tool_call_id,
     saved_for |-> role_id]

\* A variant of the next definition: the record carries no flag
UnflaggedRecord(message, t, role_id) == EmbeddedRecord(message, t, role_id)

\* The dict appended when the embedding call returned None
UnembeddedRecord(message, t, role_id) ==
    [text |-> _build_memory_text(message, t),
     timestamp |-> TimestampOf(message, t),
     role |-> message.role,
     tool_name |-> message.tool_name,
     tool_call_id |-> message.tool_call_id,
     no_embedding |-> TRUE,
     saved_for |-> role_id]

\* list.sort(key=timestamp, reverse=True) on a list of positions of meta:
\* descending timestamps, equal timestamps in their previous order
RECURSIVE SortByTimestampDesc(_, _)
SortByTimestampDesc(positions, meta) ==
    IF positions = <<>> THEN <<>>
    ELSE LET x == Head(positions)
             rest == SortByTimestampDesc(Tail(positions), meta)
             later == SelectSeq(rest, LAMBDA p : meta[p].timestamp > meta[x].timestamp)
             other == SelectSeq(rest, LAMBDA p : meta[p].timestamp <= meta[x].timestamp)
         IN  later \o <<x>> \o other

Positions(meta) == [i \in 1..Len(meta) |-> i]
At(meta, positions) == [j \in 1..Len(positions) |-> meta[positions[j]]]

\* A variant of the next definition: the records stored last, last first
LastStored(meta, limit) ==
    [j \in 1..Min(limit, Len(meta)) |-> meta[Len(meta) + 1 - j]]

\* sorted(self.metadata, key=timestamp, reverse=True)[:limit]
RecentMemories(meta, limit) ==
    LET sorted == At(meta, SortByTimestampDesc(Positions(meta), meta))
    IN  SubSeq(sorted, 1, Min(limit, Len(sorted)))

-----------------------------------------------------------------------------
(* _clean_memories                                                         *)

\* len(self.metadata) > self.max_memories * self.clean_threshold
\* A variant of the next definition: clean_threshold is left out
OverMaxMemories(meta) == Len(meta) > MaxMemories

OverThreshold(meta) == Len(meta) * ThresholdDen > MaxMemories * ThresholdNum

\* int(max_memories * 0.7)
TargetCountFor(max_memories) == (max_memories * TargetNum) \div TargetDen
TargetCount == TargetCountFor(MaxMemories)

\* max(0, target_count - len(important_memories))
KeepCountFor(max_memories, important) ==
    Max(0, TargetCountFor(max_memories) - important)

\* filter_config.get('min_importance', 3)
CleanMinImportance(filter_config) == Get(filter_config, "min_importance", 3)

\* positions of the records that are not flagged no_embedding
WithImportance(meta) == SelectSeq(Positions(meta), LAMBDA p : ~NoEmbedding(meta[p]))

ImportantMemories(meta, filter_config) ==
    SelectSeq(WithImportance(meta),
              LAMBDA p : _calculate_importance(meta[p].text)
                             >= CleanMinImportance(filter_config))

UnimportantMemories(meta, filter_config) ==
    SortByTimestampDesc(
        SelectSeq(WithImportance(meta),
                  LAMBDA p : _calculate_importance(meta[p].text)
                                 < CleanMinImportance(filter_config)),
        meta)

\* A variant of the next definition: the count of important records is
\* not taken off the target
KeepUpToTarget(meta, filter_config) == TargetCount

KeepUnimportantCount(meta, filter_config) ==
    KeepCountFor(MaxMemories, Len(ImportantMemories(meta, filter_config)))

\* A variant of the next definition: the oldest unimportant records are kept
KeepOldest(meta, filter_config) ==
    LET unimportant == UnimportantMemories(meta, filter_config)
        k == Min(KeepUnimportantCount(meta, filter_config), Len(unimportant))
    IN  ImportantMemories(meta, filter_config)
            \o SubSeq(unimportant, Len(unimportant) - k + 1, Len(unimportant))

\* A variant of the next definition: the unimportant records that are kept
\* come before the important ones
KeepUnimportantFirst(meta, filter_config) ==
    LET unimportant == UnimportantMemories(meta, filter_config)
    IN  SubSeq(unimportant, 1,
               Min(KeepUnimportantCount(meta, filter_config), Len(unimportant)))
            \o ImportantMemories(meta, filter_config)

\* keep_memories, as positions of meta
KeepMemories(meta, filter_config) ==
    LET unimportant == UnimportantMemories(meta, filter_config)
    IN  ImportantMemories(meta, filter_config)
            \o SubSeq(unimportant, 1,
                      Min(KeepUnimportantCount(meta, filter_config), Len(unimportant)))

\* The rebuild loop over keep_memories: outcomes[j] is what the embedding
\* call for the j-th kept record does.  raised: new_index.add raised.
RECURSIVE Rebuild(_, _, _, _)
Rebuild(keep, meta, outcomes, acc) ==
    IF keep = <<>> \/ acc.raised THEN acc
    ELSE LET m == meta[Head(keep)]
             v == _get_embedding(m.text, Head(outcomes))
         IN  IF v = NoVector
             THEN Rebuild(Tail(keep), meta, Tail(outcomes), acc)
             ELSE IF AddRaises(acc.index, v)
             THEN [acc EXCEPT !.raised = TRUE]
             ELSE Rebuild(Tail(keep), meta, Tail(outcomes),
                          [acc EXCEPT !.index = IndexAdd(@, v),
                                      !.metadata = Append(@, m)])

\* A variant of the next definition: an embedding call that fails ends the
\* loop as an exception does
RebuiltOrAbort(meta, filter_config, outcomes) ==
    IF \E j \in 1..Len(outcomes) : outcomes[j] # "ok"
    THEN [index |-> IndexFlatL2(Dimension), metadata |-> <<>>, raised |-> TRUE]
    ELSE Rebuild(KeepMemories(meta, filter_config), meta, outcomes,
                 [index |-> IndexFlatL2(Dimension), metadata |-> <<>>, raised |-> FALSE])

\* [index, metadata, raised] after the loop of _clean_memories
Rebuilt(meta, filter_config, outcomes) ==
    Rebuild(KeepMemories(meta, filter_config), meta, outcomes,
            [index |-> IndexFlatL2(Dimension), metadata |-> <<>>, raised |-> FALSE])

-----------------------------------------------------------------------------
(* The two files                                                           *)

AbsentIndexFile == [exists |-> FALSE, readable |-> FALSE, content |-> None]
AbsentMetadataFile == [exists |-> FALSE, readable |-> FALSE, content |-> <<>>]

\* What writing one file can do: succeed, fail before the file is touched,
\* or fail after it was truncated
WriteOutcomes == {"ok", "open_error", "write_error"}

WriteFile(file, content, empty, outcome) ==
    CASE outcome = "ok" -> [exists |-> TRUE, readable |-> TRUE, content |-> content]
      [] outcome = "write_error" -> [exists |-> TRUE, readable |-> FALSE, content |-> empty]
      [] OTHER -> file

\* _save_storage: the files [index_file, metadata_file] it leaves;
\* io = [index |-> outcome of write_index, metadata |-> outcome of the dump]
_save_storage(avail, idx, meta, ifile, mfile, io) ==
    IF ~avail \/ idx = None
    THEN [index_file |-> ifile, metadata_file |-> mfile]
    ELSE IF io.index # "ok"
    THEN [index_file |-> WriteFile(ifile, idx, None, io.index), metadata_file |-> mfile]
    ELSE [index_file |-> WriteFile(ifile, idx, None, "ok"),
          metadata_file |-> WriteFile(mfile, meta, <<>>, io.metadata)]

-----------------------------------------------------------------------------
(* State after construction                                                *)

\* memory_filter absent from the configuration: every default applies
DefaultFilter == <<>>
\* filtering switched off, cleaning threshold raised above the score of a
\* record whose content earns no bonus
CustomFilter == [enabled |-> FALSE, min_importance |-> 4]

NoMessage ==
    [role |-> "none", content |-> <<>>, timestamp |-> NoTimestamp,
     tool_name |-> NoneValue, tool_call_id |-> NoneValue]

\* tasks when the calls come one after the other: no coroutine waits
NoTasks == <<>>

\* the None that check_or_create_device returns in place of a device
NoDevice ==
    [device_id |-> "", device_name |-> <<>>, template_secret |-> "",
     verify_code |-> <<>>, status |-> "None"]

\* a response without an "activation" key
NoActivation == [code |-> <<>>, challenge |-> ""]

\* no OTA request is being handled
NoRequest ==
    [at |-> "idle", handler |-> "none", device_id |-> "", template_secret |-> "",
     attempts |-> 0, device_info |-> NoDevice, created |-> FALSE,
     auth_type |-> "manual", online |-> "False", auth |-> "False",
     response |-> [error |-> FALSE, activation |-> NoActivation]]

\* no payload has been received
NoPayload == [text |-> "", utf8 |-> TRUE, json |-> "invalid", items |-> {}]

\* MQTTNotificationListener.__init__: no client, no thread, stop_event clear
NoListener ==
    [mqtt_client |-> NoneValue, stop_event |-> FALSE, mqtt_thread |-> "none",
     connected |-> FALSE, loop |-> FALSE, stop |-> "none",
     callback |-> "function", received |-> 0, payload |-> NoPayload,
     calls |-> <<>>, late |-> 0]

\* last, for a step of operation op made for role_id
Step(op, role_id) ==
    [op |-> op, role_id |-> role_id, returned |-> TRUE, ret |-> TRUE,
     message |-> NoMessage, admitted |-> FALSE, outcome |-> "none",
     limit |-> 0, results |-> <<>>, labels |-> <<>>, path |-> "none",
     clean |-> "none", reembedded |-> FALSE, outcomes |-> <<>>,
     messages |-> <<>>]

\* __init__ with no file at index_path or metadata_path
InitWith(filters) ==
    /\ faiss_available \in BOOLEAN
    /\ index = IF faiss_available THEN IndexFlatL2(Dimension) ELSE None
    /\ metadata = <<>>
    /\ index_file = AbsentIndexFile
    /\ metadata_file = AbsentMetadataFile
    /\ memory_filter \in filters
    /\ now = 1
    /\ pc = "idle"
    /\ pending = <<>>
    /\ caller = "none"
    /\ last = Step("init", "none")
    /\ faults = 0
    /\ tasks = NoTasks
    /\ devices = {} /\ request = NoRequest /\ listener = NoListener

\* A variant of the next definition: the two files are loaded only when
\* both can be read, and the store starts empty otherwise
RestartTogether(import_ok) ==
    /\ pc = "idle"
    /\ faiss_available' = import_ok
    /\ \E both \in {/\ import_ok
                      /\ index_file.exists /\ index_file.readable
                      /\ metadata_file.exists /\ metadata_file.readable} :
          /\ index' = IF ~import_ok THEN None
                      ELSE IF both THEN index_file.content
                      ELSE IndexFlatL2(Dimension)
          /\ metadata' = IF both THEN metadata_file.content ELSE <<>>
    /\ last' = Step("init", "none")
    /\ UNCHANGED <<index_file, metadata_file, memory_filter, now, pc, pending, caller>>

\* __init__ of a new process over the files the previous one left
Restart(import_ok) ==
    /\ pc = "idle"
    /\ faiss_available' = import_ok
    /\ index' = IF ~import_ok THEN None
                ELSE IF index_file.exists /\ index_file.readable
                THEN index_file.content
                ELSE IndexFlatL2(Dimension)
    /\ metadata' = IF import_ok /\ metadata_file.exists /\ metadata_file.readable
                   THEN metadata_file.content
                   ELSE <<>>
    /\ last' = Step("init", "none")
    /\ UNCHANGED <<index_file, metadata_file, memory_filter, now, pc, pending, caller>>

-----------------------------------------------------------------------------
(* save_memory                                                             *)

\* the readings datetime.now() can give during the next step
Readings == {t \in {now, now + 1} : t <= MaxTime}

\* messages that pass _filter_memory, in their order
Admitted(messages, t) ==
    SelectSeq(messages, LAMBDA m : _filter_memory(_build_memory_text(m, t), memory_filter))

\* A variant of the next definition: when the file cannot be written the
\* appended records are taken back and the call returns False
SaveSimpleOrUndo(role_id, messages, t, io) ==
    LET admitted == Admitted(messages, t)
        grown == metadata \o [j \in 1..Len(admitted) |-> SimpleRecord(admitted[j], t, role_id)]
        capped == IF Len(grown) > SimpleCap
                  THEN SubSeq(grown, Len(grown) - SimpleCap + 1, Len(grown))
                  ELSE grown
    IN  /\ metadata' = IF io.metadata = "ok" THEN capped ELSE metadata
        /\ metadata_file' = WriteFile(metadata_file, capped, <<>>, io.metadata)
        /\ last' = [Step("save", role_id) EXCEPT !.ret = (io.metadata = "ok"),
                                                 !.messages = messages]
        /\ UNCHANGED <<index, index_file, pc, pending, caller>>

\* A variant of the next definition: over the cap the first records are
\* kept and the latest are dropped
SaveSimpleKeepFirst(role_id, messages, t, io) ==
    LET admitted == Admitted(messages, t)
        grown == metadata \o [j \in 1..Len(admitted) |-> SimpleRecord(admitted[j], t, role_id)]
        capped == IF Len(grown) > SimpleCap
                  THEN SubSeq(grown, 1, SimpleCap)
                  ELSE grown
    IN  /\ metadata' = capped
        /\ metadata_file' = WriteFile(metadata_file, capped, <<>>, io.metadata)
        /\ last' = [Step("save", role_id) EXCEPT !.messages = messages]
        /\ UNCHANGED <<index, index_file, pc, pending, caller>>

\* lines 320-343: the whole call when FAISS is unavailable
SaveSimple(role_id, messages, t, io) ==
    LET admitted == Admitted(messages, t)
        grown == metadata \o [j \in 1..Len(admitted) |-> SimpleRecord(admitted[j], t, role_id)]
        capped == IF Len(grown) > SimpleCap
                  THEN SubSeq(grown, Len(grown) - SimpleCap + 1, Len(grown))
                  ELSE grown
    IN  /\ metadata' = capped
        /\ metadata_file' = WriteFile(metadata_file, capped, <<>>, io.metadata)
        /\ last' = [Step("save", role_id) EXCEPT !.messages = messages]
        /\ UNCHANGED <<index, index_file, pc, pending, caller>>

\* A variant of the next definition: a message that _filter_memory rejects
\* is embedded and stored like the others
SaveStepUnfiltered(role_id, message, rest, outcome, t) ==
    \E text \in {_build_memory_text(message, t)} :
    \E v \in {_get_embedding(text, outcome)} :
    \E step \in {[Step("save", role_id) EXCEPT !.returned = FALSE, !.message = message,
                      !.admitted = _filter_memory(text, memory_filter)]} :
        IF v = NoVector
        THEN /\ metadata' = Append(metadata, UnembeddedRecord(message, t, role_id))
             /\ last' = [step EXCEPT !.outcome = outcome]
             /\ pc' = "save" /\ pending' = rest /\ caller' = role_id
             /\ UNCHANGED index
        ELSE IF AddRaises(index, v)
        THEN /\ last' = [step EXCEPT !.outcome = outcome,
                                     !.returned = TRUE, !.ret = FALSE]
             /\ pc' = "idle" /\ pending' = <<>> /\ caller' = "none"
             /\ UNCHANGED <<index, metadata>>
        ELSE /\ index' = IndexAdd(index, v)
             /\ metadata' = Append(metadata, EmbeddedRecord(message, t, role_id))
             /\ last' = [step EXCEPT !.outcome = outcome]
             /\ pc' = "save" /\ pending' = rest /\ caller' = role_id

\* lines 346-388: one pass of the message loop, for message, with rest left
SaveStep(role_id, message, rest, outcome, t) ==
    \E text \in {_build_memory_text(message, t)} :
    \E v \in {_get_embedding(text, outcome)} :
    \E step \in {[Step("save", role_id) EXCEPT !.returned = FALSE, !.message = message]} :
        IF ~_filter_memory(text, memory_filter)
        THEN /\ last' = step
             /\ pc' = "save" /\ pending' = rest /\ caller' = role_id
             /\ UNCHANGED <<index, metadata>>
        ELSE IF v = NoVector
        THEN /\ metadata' = Append(metadata, UnembeddedRecord(message, t, role_id))
             /\ last' = [step EXCEPT !.admitted = TRUE, !.outcome = outcome]
             /\ pc' = "save" /\ pending' = rest /\ caller' = role_id
             /\ UNCHANGED index
        ELSE IF AddRaises(index, v)
        THEN \* lines 398-400: the exception ends the call
             /\ last' = [step EXCEPT !.admitted = TRUE, !.outcome = outcome,
                                     !.returned = TRUE, !.ret = FALSE]
             /\ pc' = "idle" /\ pending' = <<>> /\ caller' = "none"
             /\ UNCHANGED <<index, metadata>>
        ELSE /\ index' = IndexAdd(index, v)
             /\ metadata' = Append(metadata, EmbeddedRecord(message, t, role_id))
             /\ last' = [step EXCEPT !.admitted = TRUE, !.outcome = outcome]
             /\ pc' = "save" /\ pending' = rest /\ caller' = role_id

\* save_memory is called with messages, by role_id, on a store that the
\* call leaves with at most bound records before it cleans
SaveMemoryWithin(bound, role_id, messages, outcome, t, io) ==
    /\ pc = "idle"
    /\ Len(metadata) + Len(messages) <= bound
    /\ t \in Readings
    /\ now' = t
    /\ IF messages = <<>>
       THEN /\ last' = Step("save", role_id)
            /\ UNCHANGED <<index, metadata, index_file, metadata_file, pc, pending, caller>>
       ELSE IF ~faiss_available
       THEN SaveSimple(role_id, messages, t, io)
       ELSE /\ SaveStep(role_id, Head(messages), Tail(messages), outcome, t)
            /\ UNCHANGED <<index_file, metadata_file>>
    /\ UNCHANGED <<faiss_available, memory_filter>>

SaveMemory(role_id, messages, outcome, t, io) ==
    SaveMemoryWithin(MaxLen, role_id, messages, outcome, t, io)

\* the loop goes on with the next message
SaveNext(outcome, t) ==
    /\ pc = "save"
    /\ pending # <<>>
    /\ t \in Readings
    /\ now' = t
    /\ SaveStep(caller, Head(pending), Tail(pending), outcome, t)
    /\ UNCHANGED <<faiss_available, memory_filter, index_file, metadata_file>>

\* the number of embedding calls _clean_memories makes if it runs now
CleanCalls ==
    IF OverThreshold(metadata) THEN Len(KeepMemories(metadata, memory_filter)) ELSE 0

\* A variant of the next definition: the new index takes the place of the
\* index as the loop fills it, so that an exception leaves it in place
\* beside the metadata of before
SaveFinishHalf(outcomes, clean_io, save_io) ==
    /\ pc = "save"
    /\ pending = <<>>
    /\ \E clean \in {OverThreshold(metadata) /\ faiss_available /\ Len(metadata) # 0} :
       \E r \in {IF clean THEN Rebuilt(metadata, memory_filter, outcomes)
                  ELSE [index |-> index, metadata |-> metadata, raised |-> FALSE]} :
       \E replaced \in {clean /\ ~r.raised} :
       \E idx \in {IF clean THEN r.index ELSE index} :
       \E meta \in {IF replaced THEN r.metadata ELSE metadata} :
       \E cleaned \in {IF replaced
                        THEN _save_storage(faiss_available, idx, meta,
                                           index_file, metadata_file, clean_io)
                        ELSE [index_file |-> index_file,
                              metadata_file |-> metadata_file]} :
       \E saved \in {_save_storage(faiss_available, idx, meta,
                                    cleaned.index_file, cleaned.metadata_file, save_io)} :
           /\ index' = idx
           /\ metadata' = meta
           /\ index_file' = saved.index_file
           /\ metadata_file' = saved.metadata_file
           /\ last' = [Step("save", caller) EXCEPT
                         !.clean = IF ~clean THEN "none"
                                   ELSE IF replaced THEN "replaced" ELSE "aborted",
                         !.reembedded = clean /\ \A j \in 1..Len(outcomes) :
                                                    outcomes[j] = "ok",
                         !.outcomes = IF clean THEN outcomes ELSE <<>>]
    /\ pc' = "idle"
    /\ caller' = "none"
    /\ UNCHANGED <<faiss_available, memory_filter, now, pending>>

\* A variant of the next definition: the size check is made after every
\* record, so that the call can clean and end with messages left
SaveFinishEarly(outcomes, clean_io, save_io) ==
    /\ pc = "save"
    /\ \E clean \in {OverThreshold(metadata) /\ faiss_available /\ Len(metadata) # 0} :
       \E r \in {IF clean THEN Rebuilt(metadata, memory_filter, outcomes)
                  ELSE [index |-> index, metadata |-> metadata, raised |-> FALSE]} :
       \E replaced \in {clean /\ ~r.raised} :
       \E idx \in {IF replaced THEN r.index ELSE index} :
       \E meta \in {IF replaced THEN r.metadata ELSE metadata} :
       \E cleaned \in {IF replaced
                        THEN _save_storage(faiss_available, idx, meta,
                                           index_file, metadata_file, clean_io)
                        ELSE [index_file |-> index_file,
                              metadata_file |-> metadata_file]} :
       \E saved \in {_save_storage(faiss_available, idx, meta,
                                    cleaned.index_file, cleaned.metadata_file, save_io)} :
           /\ index' = idx
           /\ metadata' = meta
           /\ index_file' = saved.index_file
           /\ metadata_file' = saved.metadata_file
           /\ last' = [Step("save", caller) EXCEPT
                         !.clean = IF ~clean THEN "none"
                                   ELSE IF replaced THEN "replaced" ELSE "aborted",
                         !.reembedded = clean /\ \A j \in 1..Len(outcomes) :
                                                    outcomes[j] = "ok",
                         !.outcomes = IF clean THEN outcomes ELSE <<>>]
    /\ pc' = "idle"
    /\ caller' = "none"
    /\ UNCHANGED <<faiss_available, memory_filter, now, pending>>

\* lines 390-396: the size check, _clean_memories, _save_storage, return True.
\* outcomes: of the embedding calls of _clean_memories; clean_io, save_io:
\* of the _save_storage of _clean_memories and of save_memory
SaveFinish(outcomes, clean_io, save_io) ==
    /\ pc = "save"
    /\ pending = <<>>
    /\ \E clean \in {OverThreshold(metadata) /\ faiss_available /\ Len(metadata) # 0} :
       \E r \in {IF clean THEN Rebuilt(metadata, memory_filter, outcomes)
                  ELSE [index |-> index, metadata |-> metadata, raised |-> FALSE]} :
       \E replaced \in {clean /\ ~r.raised} :
       \E idx \in {IF replaced THEN r.index ELSE index} :
       \E meta \in {IF replaced THEN r.metadata ELSE metadata} :
       \E cleaned \in {IF replaced
                        THEN _save_storage(faiss_available, idx, meta,
                                           index_file, metadata_file, clean_io)
                        ELSE [index_file |-> index_file,
                              metadata_file |-> metadata_file]} :
       \E saved \in {_save_storage(faiss_available, idx, meta,
                                    cleaned.index_file, cleaned.metadata_file, save_io)} :
           /\ index' = idx
           /\ metadata' = meta
           /\ index_file' = saved.index_file
           /\ metadata_file' = saved.metadata_file
           /\ last' = [Step("save", caller) EXCEPT
                         !.clean = IF ~clean THEN "none"
                                   ELSE IF replaced THEN "replaced" ELSE "aborted",
                         !.reembedded = clean /\ \A j \in 1..Len(outcomes) :
                                                    outcomes[j] = "ok",
                         !.outcomes = IF clean THEN outcomes ELSE <<>>]
    /\ pc' = "idle"
    /\ caller' = "none"
    /\ UNCHANGED <<faiss_available, memory_filter, now, pending>>

-----------------------------------------------------------------------------
(* clean_all_memories                                                      *)

\* A variant of the next definition: the index in memory is left as it was
\* and only the files are reset
ClearFilesOnly(role_id, io) ==
    /\ pc = "idle"
    /\ metadata' = <<>>
    /\ IF ~faiss_available
       THEN /\ metadata_file' = WriteFile(metadata_file, <<>>, <<>>, io.metadata)
            /\ last' = [Step("clear", role_id) EXCEPT !.ret = (io.metadata = "ok")]
            /\ UNCHANGED <<index, index_file>>
       ELSE LET saved == _save_storage(faiss_available, IndexFlatL2(Dimension), <<>>,
                                       index_file, metadata_file, io)
            IN  /\ index' = index
                /\ index_file' = saved.index_file
                /\ metadata_file' = saved.metadata_file
                /\ last' = Step("clear", role_id)
    /\ UNCHANGED <<faiss_available, memory_filter, now, pc, pending, caller>>

CleanAllMemories(role_id, io) ==
    /\ pc = "idle"
    /\ metadata' = <<>>
    /\ IF ~faiss_available
       THEN /\ metadata_file' = WriteFile(metadata_file, <<>>, <<>>, io.metadata)
            /\ last' = [Step("clear", role_id) EXCEPT !.ret = (io.metadata = "ok")]
            /\ UNCHANGED <<index, index_file>>
       ELSE LET saved == _save_storage(faiss_available, IndexFlatL2(Dimension), <<>>,
                                       index_file, metadata_file, io)
            IN  /\ index' = IndexFlatL2(Dimension)
                /\ index_file' = saved.index_file
                /\ metadata_file' = saved.metadata_file
                /\ last' = Step("clear", role_id)
    /\ UNCHANGED <<faiss_available, memory_filter, now, pc, pending, caller>>

-----------------------------------------------------------------------------
(* query_memory                                                            *)

\* similarity = 1.0 / (1.0 + distance), as the fraction <<numerator, denominator>>
Similarity(distance) == <<VectorScale * VectorScale, VectorScale * VectorScale + distance>>

\* A variant of the next definition: no similarity counts as too low
NeverBelow(similarity) == FALSE

\* similarity < self.similarity_threshold
BelowThreshold(similarity) == 100 * similarity[1] < SimilarityThresholdPct * similarity[2]

\* lines 531-542: the hits that pass the label check and the threshold
Passing(hits, meta) ==
    SelectSeq(hits, LAMBDA h : /\ ~(h.idx >= Len(meta) \/ h.idx < 0)
                               /\ ~BelowThreshold(Similarity(h.distance)))

\* memory = self.metadata[idx].copy(); memory['similarity'] = similarity
Annotated(meta, h) == ("similarity" :> Similarity(h.distance)) @@ meta[h.idx + 1]

\* A variant of the next definition: index.search is made outside the try,
\* so that when it raises the call does not return
QueryMemoryUnguarded(role_id, query, limit, outcome) ==
    /\ pc = "idle"
    /\ \E recent \in {[Step("query", role_id) EXCEPT
                          !.limit = limit, !.path = "recency",
                          !.results = RecentMemories(metadata, limit)]} :
       \E v \in {_get_embedding(query, outcome)} :
       \E k \in {Min(limit, Len(metadata))} :
           IF ~faiss_available \/ index = None \/ Len(metadata) = 0
           THEN last' = recent
           ELSE IF v = NoVector
           THEN last' = [recent EXCEPT !.outcome = outcome]
           ELSE IF SearchRaises(index, v, k)
           THEN last' = [Step("query", role_id) EXCEPT
                           !.limit = limit, !.outcome = outcome, !.returned = FALSE]
           ELSE \E hits \in {Passing(IndexSearch(index, v, k), metadata)} :
                last' = [Step("query", role_id) EXCEPT
                           !.limit = limit, !.path = "index", !.outcome = outcome,
                           !.results = [n \in 1..Len(hits) |-> Annotated(metadata, hits[n])],
                           !.labels = [n \in 1..Len(hits) |-> hits[n].idx]]
    /\ UNCHANGED <<faiss_available, index, metadata, index_file, metadata_file,
                   memory_filter, now, pc, pending, caller>>

\* A variant of the next definition: the similarity is written on the stored
\* record, which is what the caller is given
QueryMemoryInPlace(role_id, query, limit, outcome) ==
    /\ pc = "idle"
    /\ \E recent \in {[Step("query", role_id) EXCEPT
                          !.limit = limit, !.path = "recency",
                          !.results = RecentMemories(metadata, limit)]} :
       \E v \in {_get_embedding(query, outcome)} :
       \E k \in {Min(limit, Len(metadata))} :
           IF ~faiss_available \/ index = None \/ Len(metadata) = 0
           THEN last' = recent /\ UNCHANGED metadata
           ELSE IF v = NoVector
           THEN last' = [recent EXCEPT !.outcome = outcome] /\ UNCHANGED metadata
           ELSE IF SearchRaises(index, v, k)
           THEN last' = [recent EXCEPT !.outcome = outcome] /\ UNCHANGED metadata
           ELSE \E hits \in {Passing(IndexSearch(index, v, k), metadata)} :
                /\ last' = [Step("query", role_id) EXCEPT
                              !.limit = limit, !.path = "index", !.outcome = outcome,
                              !.results = [n \in 1..Len(hits) |-> Annotated(metadata, hits[n])],
                              !.labels = [n \in 1..Len(hits) |-> hits[n].idx]]
                /\ metadata' = [i \in 1..Len(metadata) |->
                                   IF \E n \in 1..Len(hits) : hits[n].idx + 1 = i
                                   THEN Annotated(metadata,
                                            hits[CHOOSE n \in 1..Len(hits) : hits[n].idx + 1 = i])
                                   ELSE metadata[i]]
    /\ UNCHANGED <<faiss_available, index, index_file, metadata_file,
                   memory_filter, now, pc, pending, caller>>

QueryMemory(role_id, query, limit, outcome) ==
    /\ pc = "idle"
    /\ \E recent \in {[Step("query", role_id) EXCEPT
                          !.limit = limit, !.path = "recency",
                          !.results = RecentMemories(metadata, limit)]} :
       \E v \in {_get_embedding(query, outcome)} :
       \E k \in {Min(limit, Len(metadata))} :
           IF ~faiss_available \/ index = None \/ Len(metadata) = 0
           THEN last' = recent
           ELSE IF v = NoVector
           THEN last' = [recent EXCEPT !.outcome = outcome]
           ELSE IF SearchRaises(index, v, k)
           THEN last' = [recent EXCEPT !.outcome = outcome]
           ELSE \E hits \in {Passing(IndexSearch(index, v, k), metadata)} :
                last' = [Step("query", role_id) EXCEPT
                           !.limit = limit, !.path = "index", !.outcome = outcome,
                           !.results = [n \in 1..Len(hits) |-> Annotated(metadata, hits[n])],
                           !.labels = [n \in 1..Len(hits) |-> hits[n].idx]]
    /\ UNCHANGED <<faiss_available, index, metadata, index_file, metadata_file,
                   memory_filter, now, pc, pending, caller>>

-----------------------------------------------------------------------------
(* Specifications                                                          *)

RoleIds == {"A", "B"}
QueryTexts == {<<"deng">>}
Batches == UNION {[1..n -> Messages] : n \in 0..MaxBatch}
Healthy == [index |-> "ok", metadata |-> "ok"]

\* Sequential use by one caller; the embedding service answers or fails,
\* every file write succeeds.
Init == InitWith({DefaultFilter, CustomFilter})

Next ==
    \/ \E messages \in Batches, outcome \in {"ok", "fail"}, t \in Readings :
          SaveMemory("A", messages, outcome, t, Healthy) /\ UNCHANGED <<faults, tasks, devices, request, listener>>
    \/ \E outcome \in {"ok", "fail"}, t \in Readings :
          SaveNext(outcome, t) /\ UNCHANGED <<faults, tasks, devices, request, listener>>
    \/ /\ pc = "save"
       /\ \E outcomes \in [1..CleanCalls -> {"ok", "fail"}] :
             SaveFinish(outcomes, Healthy, Healthy) /\ UNCHANGED <<faults, tasks, devices, request, listener>>
    \/ CleanAllMemories("A", Healthy) /\ UNCHANGED <<faults, tasks, devices, request, listener>>
    \/ \E query \in QueryTexts, limit \in 1..MaxLimit, outcome \in {"ok", "fail"} :
          QueryMemory("A", query, limit, outcome) /\ UNCHANGED <<faults, tasks, devices, request, listener>>

Spec == Init /\ [][Next]_vars

\* The same use, with file writes that can fail and with the process started
\* again over the files it left; every message is the same greeting without
\* a timestamp, and the embedding service always answers.
Greeting == [role |-> "user", content |-> PlainContent, timestamp |-> NoTimestamp,
             tool_name |-> NoneValue, tool_call_id |-> NoneValue]
GreetingBatches == UNION {[1..n -> {Greeting}] : n \in 1..MaxBatch}
WriteResults ==
    {Healthy, [index |-> "open_error", metadata |-> "ok"],
     [index |-> "ok", metadata |-> "open_error"],
     [index |-> "ok", metadata |-> "write_error"]}
Cost(io) == IF io = Healthy THEN 0 ELSE 1
Charge(n) ==
    /\ faults + n <= MaxFaults /\ faults' = faults + n
    /\ UNCHANGED <<tasks, devices, request, listener>>

InitStorage == InitWith({DefaultFilter})

NextStorage ==
    \/ \E messages \in GreetingBatches, t \in Readings, io \in WriteResults :
          /\ faiss_available => io = Healthy
          /\ SaveMemory("A", messages, "ok", t, io)
          /\ Charge(Cost(io))
    \/ \E t \in Readings : SaveNext("ok", t) /\ UNCHANGED <<faults, tasks, devices, request, listener>>
    \/ /\ pc = "save"
       /\ \E outcomes \in [1..CleanCalls -> {"ok"}], clean_io, save_io \in WriteResults :
             /\ ~OverThreshold(metadata) => clean_io = Healthy
             /\ SaveFinish(outcomes, clean_io, save_io)
             /\ Charge(Cost(clean_io) + Cost(save_io))
    \/ \E io \in WriteResults : CleanAllMemories("A", io) /\ Charge(Cost(io))
    \/ \E limit \in 1..MaxLimit :
          QueryMemory("A", <<"deng">>, limit, "ok") /\ UNCHANGED <<faults, tasks, devices, request, listener>>
    \/ \E import_ok \in BOOLEAN : Restart(import_ok) /\ Charge(1)

SpecStorage == InitStorage /\ [][NextStorage]_vars

\* Two callers, each passing its own role_id, in turn on the one provider;
\* the embedding service always answers and every file write succeeds.
NextRoles ==
    \/ \E role_id \in RoleIds, messages \in GreetingBatches, t \in Readings :
          SaveMemory(role_id, messages, "ok", t, Healthy) /\ UNCHANGED <<faults, tasks, devices, request, listener>>
    \/ \E t \in Readings : SaveNext("ok", t) /\ UNCHANGED <<faults, tasks, devices, request, listener>>
    \/ /\ pc = "save"
       /\ \E outcomes \in [1..CleanCalls -> {"ok"}] :
             SaveFinish(outcomes, Healthy, Healthy) /\ UNCHANGED <<faults, tasks, devices, request, listener>>
    \/ \E role_id \in RoleIds : CleanAllMemories(role_id, Healthy) /\ UNCHANGED <<faults, tasks, devices, request, listener>>
    \/ \E role_id \in RoleIds, limit \in 1..MaxLimit :
          QueryMemory(role_id, <<"nihao">>, limit, "ok") /\ UNCHANGED <<faults, tasks, devices, request, listener>>

SpecRoles == InitStorage /\ [][NextRoles]_vars

\* One caller whose messages carry no timestamp and say a greeting, a
\* command or the name of a device, so that the records lie at several
\* distances from the query; the embedding service always answers and every
\* file write succeeds.
DeviceContent == <<"deng">>
SearchMessages ==
    [role : {"user"}, content : {PlainContent, CommandContent, DeviceContent},
     timestamp : {NoTimestamp}, tool_name : {NoneValue}, tool_call_id : {NoneValue}]
SearchBatches == UNION {[1..n -> SearchMessages] : n \in 1..MaxBatch}

NextSearch ==
    \/ \E messages \in SearchBatches, t \in Readings :
          SaveMemory("A", messages, "ok", t, Healthy) /\ UNCHANGED <<faults, tasks, devices, request, listener>>
    \/ \E t \in Readings : SaveNext("ok", t) /\ UNCHANGED <<faults, tasks, devices, request, listener>>
    \/ /\ pc = "save"
       /\ \E outcomes \in [1..CleanCalls -> {"ok"}] :
             SaveFinish(outcomes, Healthy, Healthy) /\ UNCHANGED <<faults, tasks, devices, request, listener>>
    \/ CleanAllMemories("A", Healthy) /\ UNCHANGED <<faults, tasks, devices, request, listener>>
    \/ \E query \in QueryTexts, limit \in 1..MaxLimit :
          QueryMemory("A", query, limit, "ok") /\ UNCHANGED <<faults, tasks, devices, request, listener>>

SpecSearch == InitStorage /\ [][NextSearch]_vars

\* One caller under every memory_filter of a family whose length bounds lie
\* at, one below and one above the lengths of the record texts, and whose
\* importance thresholds lie at and around their scores; the embedding
\* service always answers and every file write succeeds.
FilterMessages ==
    [role : {"user"}, content : {PlainContent, CommandContent},
     timestamp : {NoTimestamp}, tool_name : {NoneValue}, tool_call_id : {NoneValue}]
FilterBatches == UNION {[1..n -> FilterMessages] : n \in 1..MaxBatch}
FilterTexts == {_build_memory_text(m, 1) : m \in FilterMessages}
NearLengths == {TextLen(text) + k : text \in FilterTexts, k \in {-1, 0, 1}}
NearScores == {_calculate_importance(text) + k : text \in FilterTexts, k \in {0, 1}}
FilterConfigs ==
    [enabled : BOOLEAN,
     min_text_length : NearLengths,
     max_text_length : NearLengths,
     keywords : {{}, {"deng"}},
     min_importance : {0} \cup NearScores]

InitFilter == InitWith({DefaultFilter} \cup FilterConfigs) /\ faiss_available

NextFilter ==
    \/ \E messages \in FilterBatches, t \in Readings :
          SaveMemory("A", messages, "ok", t, Healthy) /\ UNCHANGED <<faults, tasks, devices, request, listener>>
    \/ \E t \in Readings : SaveNext("ok", t) /\ UNCHANGED <<faults, tasks, devices, request, listener>>
    \/ /\ pc = "save"
       /\ \E outcomes \in [1..CleanCalls -> {"ok"}] :
             SaveFinish(outcomes, Healthy, Healthy) /\ UNCHANGED <<faults, tasks, devices, request, listener>>

SpecFilter == InitFilter /\ [][NextFilter]_vars

\* One caller whose messages hold at most two words, of every category of
\* the score and of none, under a memory_filter whose min_importance no
\* text reaches: every text is scored and none is stored.
ScoreWords == {"nihao", "dakai", "guanbi", "deng", "kongtiao", "xihuan", "xiawu", "1"}
ScoreContents == UNION {[1..n -> ScoreWords] : n \in 0..2}
ScoreMessages ==
    [role : {"user"}, content : ScoreContents,
     timestamp : {NoTimestamp}, tool_name : {NoneValue}, tool_call_id : {NoneValue}]
StrictFilter == [min_importance |-> 8]

InitScore == InitWith({StrictFilter}) /\ faiss_available

NextScore ==
    \/ \E message \in ScoreMessages, t \in Readings :
          SaveMemory("A", <<message>>, "ok", t, Healthy) /\ UNCHANGED <<faults, tasks, devices, request, listener>>
    \/ /\ pc = "save"
       /\ \E outcomes \in [1..CleanCalls -> {"ok"}] :
             SaveFinish(outcomes, Healthy, Healthy) /\ UNCHANGED <<faults, tasks, devices, request, listener>>

SpecScore == InitScore /\ [][NextScore]_vars

\* One caller saying the greeting, with every failure at once: the embedding
\* service answers, fails or answers a vector of another dimension (which
\* makes index.add and index.search raise), and file writes fail; at most
\* MaxFaults of these in one behaviour.
Misses(outcomes) == Cardinality({j \in 1..Len(outcomes) : outcomes[j] # "ok"})

NextFaults ==
    \/ \E messages \in GreetingBatches, outcome \in EmbeddingOutcomes,
          t \in Readings, io \in WriteResults :
          /\ faiss_available => io = Healthy
          /\ ~faiss_available => outcome = "ok"
          /\ Charge(Cost(io) + Misses(<<outcome>>))
          /\ SaveMemory("A", messages, outcome, t, io)
    \/ \E outcome \in EmbeddingOutcomes, t \in Readings :
          SaveNext(outcome, t) /\ Charge(Misses(<<outcome>>))
    \/ /\ pc = "save"
       /\ \E outcomes \in [1..CleanCalls -> EmbeddingOutcomes],
             clean_io, save_io \in WriteResults :
             /\ ~OverThreshold(metadata) => clean_io = Healthy
             /\ Charge(Cost(clean_io) + Cost(save_io) + Misses(outcomes))
             /\ SaveFinish(outcomes, clean_io, save_io)
    \/ \E io \in WriteResults : CleanAllMemories("A", io) /\ Charge(Cost(io))
    \/ \E limit \in 1..MaxLimit, outcome \in EmbeddingOutcomes :
          /\ (~faiss_available \/ metadata = <<>>) => outcome = "ok"
          /\ QueryMemory("A", <<"deng">>, limit, outcome)
          /\ Charge(Misses(<<outcome>>))

SpecFaults == InitStorage /\ [][NextFaults]_vars

\* The use of SpecStorage, where write_index too can fail after it has
\* truncated the index file, so that a new process can find either file
\* unreadable next to the other one intact.
LoadResults == WriteResults \cup {[index |-> "write_error", metadata |-> "ok"]}

NextLoad ==
    \/ \E messages \in GreetingBatches, t \in Readings, io \in LoadResults :
          /\ faiss_available => io = Healthy
          /\ Charge(Cost(io))
          /\ SaveMemory("A", messages, "ok", t, io)
    \/ \E t \in Readings : SaveNext("ok", t) /\ UNCHANGED <<faults, tasks, devices, request, listener>>
    \/ /\ pc = "save"
       /\ \E outcomes \in [1..CleanCalls -> {"ok"}], clean_io, save_io \in LoadResults :
             /\ ~OverThreshold(metadata) => clean_io = Healthy
             /\ Charge(Cost(clean_io) + Cost(save_io))
             /\ SaveFinish(outcomes, clean_io, save_io)
    \/ \E io \in LoadResults : CleanAllMemories("A", io) /\ Charge(Cost(io))
    \/ \E limit \in 1..MaxLimit :
          QueryMemory("A", <<"deng">>, limit, "ok") /\ UNCHANGED <<faults, tasks, devices, request, listener>>
    \/ \E import_ok \in BOOLEAN : Restart(import_ok) /\ Charge(1)

SpecLoad == InitStorage /\ [][NextLoad]_vars

\* The use of SpecSearch, with an embedding service that can fail or answer
\* a vector of another length, for a save as for a query: query_memory goes
\* through the search, through the latest records, and through the
\* exception of index.search.
NextQuery ==
    \/ \E messages \in SearchBatches, outcome \in {"ok", "fail"}, t \in Readings :
          SaveMemory("A", messages, outcome, t, Healthy) /\ UNCHANGED <<faults, tasks, devices, request, listener>>
    \/ \E outcome \in {"ok", "fail"}, t \in Readings :
          SaveNext(outcome, t) /\ UNCHANGED <<faults, tasks, devices, request, listener>>
    \/ /\ pc = "save"
       /\ \E outcomes \in [1..CleanCalls -> {"ok"}] :
             SaveFinish(outcomes, Healthy, Healthy) /\ UNCHANGED <<faults, tasks, devices, request, listener>>
    \/ CleanAllMemories("A", Healthy) /\ UNCHANGED <<faults, tasks, devices, request, listener>>
    \/ \E query \in QueryTexts, limit \in 1..MaxLimit, outcome \in EmbeddingOutcomes :
          QueryMemory("A", query, limit, outcome) /\ UNCHANGED <<faults, tasks, devices, request, listener>>

SpecQuery == InitStorage /\ [][NextQuery]_vars

\* A provider without FAISS that has stored one record less than its cap,
\* all at the first clock reading, and goes on saving; the filter admits
\* the texts that name the lamp, so the command is stored and the greeting
\* is not; the metadata file cannot always be opened.  The saves go on
\* until MaxLen records of a later reading are in the store.
KeywordFilter == [keywords |-> {"deng"}]
CommandMessage == [role |-> "user", content |-> CommandContent, timestamp |-> NoTimestamp,
                   tool_name |-> NoneValue, tool_call_id |-> NoneValue]
SimpleBatches == UNION {[1..n -> {Greeting, CommandMessage}] : n \in 1..MaxBatch}
SimpleResults == {Healthy, [index |-> "ok", metadata |-> "open_error"]}

InitSimple ==
    /\ faiss_available = FALSE
    /\ index = None
    /\ metadata = [i \in 1..(SimpleCap - 1) |-> SimpleRecord(CommandMessage, 1, "A")]
    /\ index_file = AbsentIndexFile
    /\ metadata_file = WriteFile(AbsentMetadataFile, metadata, <<>>, "ok")
    /\ memory_filter = KeywordFilter
    /\ now = 1
    /\ pc = "idle"
    /\ pending = <<>>
    /\ caller = "none"
    /\ last = [Step("save", "A") EXCEPT !.messages = <<CommandMessage>>]
    /\ faults = 0
    /\ tasks = NoTasks
    /\ devices = {} /\ request = NoRequest /\ listener = NoListener

LaterRecords(meta) == Cardinality({i \in 1..Len(meta) : meta[i].timestamp > 1})

NextSimple ==
    \E messages \in SimpleBatches, t \in Readings, io \in SimpleResults :
        /\ LaterRecords(metadata) + Len(messages) <= MaxLen
        /\ Charge(Cost(io))
        /\ SaveMemoryWithin(SimpleCap + MaxBatch, "A", messages, "ok", t, io)

SpecSimple == InitSimple /\ [][NextSimple]_vars

\* Saves and queries of a provider whose file writes all succeed, with an
\* embedding service that can fail or answer a vector of another length:
\* every save_memory that returns True has written the store to the files.
NextBatch ==
    \/ \E messages \in GreetingBatches, outcome \in EmbeddingOutcomes, t \in Readings :
          /\ ~faiss_available => outcome = "ok"
          /\ Charge(Misses(<<outcome>>))
          /\ SaveMemory("A", messages, outcome, t, Healthy)
    \/ \E outcome \in EmbeddingOutcomes, t \in Readings :
          SaveNext(outcome, t) /\ Charge(Misses(<<outcome>>))
    \/ /\ pc = "save"
       /\ \E outcomes \in [1..CleanCalls -> EmbeddingOutcomes] :
             /\ Charge(Misses(outcomes))
             /\ SaveFinish(outcomes, Healthy, Healthy)
    \/ \E limit \in 1..MaxLimit, outcome \in EmbeddingOutcomes :
          /\ (~faiss_available \/ metadata = <<>>) => outcome = "ok"
          /\ QueryMemory("A", <<"deng">>, limit, outcome)
          /\ Charge(Misses(<<outcome>>))

SpecBatch == InitStorage /\ [][NextBatch]_vars

-----------------------------------------------------------------------------
(* Two save_memory coroutines on one provider.  A coroutine gives way only  *)
(* at an await of _get_embedding, in the message loop or in the loop of     *)
(* _clean_memories; what it does from one await to the next is one step.    *)

Calls == {"A", "B"}

\* a coroutine: where it waits (none: not called, embed: line 354, clean:
\* line 452, done: returned), the message it embeds and those that follow,
\* the locals keep_memories (what is left of it), new_index and
\* new_metadata of _clean_memories; messages: those of the call, and late:
\* the records others appended while it waited in _clean_memories
NoTask ==
    [at |-> "none", messages |-> <<>>, message |-> NoMessage, rest |-> <<>>,
     keep |-> <<>>, new_index |-> None, new_metadata |-> <<>>, late |-> <<>>,
     ret |-> TRUE]

\* lines 346-351: messages, from the first that _filter_memory admits
RECURSIVE FromAdmitted(_, _)
FromAdmitted(messages, t) ==
    IF messages = <<>> THEN <<>>
    ELSE IF _filter_memory(_build_memory_text(Head(messages), t), memory_filter)
    THEN messages
    ELSE FromAdmitted(Tail(messages), t)

\* what a step leaves: the coroutine and the store
Left(task, idx, meta, files) ==
    [task |-> task, index |-> idx, metadata |-> meta,
     index_file |-> files.index_file, metadata_file |-> files.metadata_file]

\* lines 390-396 with _clean_memories up to its first await
EndOfLoop(task, idx, meta, files) ==
    LET keep == At(meta, KeepMemories(meta, memory_filter))
        done == [task EXCEPT !.at = "done"]
    IN  IF ~(OverThreshold(meta) /\ Len(meta) # 0)
        THEN Left(done, idx, meta,
                  _save_storage(TRUE, idx, meta, files.index_file,
                                files.metadata_file, Healthy))
        ELSE IF keep = <<>>
        THEN Left(done, IndexFlatL2(Dimension), <<>>,
                  _save_storage(TRUE, IndexFlatL2(Dimension), <<>>, files.index_file,
                                files.metadata_file, Healthy))
        ELSE Left([task EXCEPT !.at = "clean", !.keep = keep,
                               !.new_index = IndexFlatL2(Dimension),
                               !.new_metadata = <<>>, !.late = <<>>],
                  idx, meta, files)

\* the message loop goes on over rest: to the next await, or to its end
Continue(task, rest, t, idx, meta, files) ==
    LET next == FromAdmitted(rest, t)
    IN  IF next # <<>>
        THEN Left([task EXCEPT !.at = "embed", !.message = Head(next), !.rest = Tail(next)],
                  idx, meta, files)
        ELSE EndOfLoop(task, idx, meta, files)

Files == [index_file |-> index_file, metadata_file |-> metadata_file]

\* the step of coroutine c leaves left; appended: the records it appended,
\* which the coroutines waiting in _clean_memories have not seen
Leave(c, left, appended) ==
    /\ tasks' = [d \in Calls |->
                   IF d = c THEN left.task
                   ELSE IF tasks[d].at = "clean"
                   THEN [tasks[d] EXCEPT !.late = @ \o appended]
                   ELSE tasks[d]]
    /\ index' = left.index
    /\ metadata' = left.metadata
    /\ index_file' = left.index_file
    /\ metadata_file' = left.metadata_file
    /\ UNCHANGED <<faiss_available, memory_filter, now, pc, pending, caller, last, faults,
                   devices, request, listener>>

\* save_memory(messages) is called: coroutine c runs to its first await
CallSave(c, messages) ==
    /\ tasks[c].at = "none"
    /\ messages # <<>>
    /\ Leave(c, Continue([NoTask EXCEPT !.messages = messages], messages, now,
                         index, metadata, Files), <<>>)

\* the await of line 354 ends with outcome: lines 355-388 for the message,
\* then the loop to the next await
ResumeEmbed(c, outcome) ==
    /\ tasks[c].at = "embed"
    /\ \E task \in {tasks[c]} :
       \E v \in {_get_embedding(_build_memory_text(task.message, now), outcome)} :
          IF v = NoVector
          THEN \E record \in {UnembeddedRecord(task.message, now, c)} :
                  Leave(c, Continue(task, task.rest, now, index,
                                    Append(metadata, record), Files), <<record>>)
          ELSE IF AddRaises(index, v)
          THEN Leave(c, Left([task EXCEPT !.at = "done", !.ret = FALSE],
                             index, metadata, Files), <<>>)
          ELSE \E record \in {EmbeddedRecord(task.message, now, c)} :
                  Leave(c, Continue(task, task.rest, now, IndexAdd(index, v),
                                    Append(metadata, record), Files), <<record>>)

\* the await of line 452 ends with outcome: lines 454-456 for the record,
\* then the loop to the next await, or lines 459-463 and 395-396
ResumeClean(c, outcome) ==
    /\ tasks[c].at = "clean"
    /\ \E task \in {tasks[c]} :
       \E v \in {_get_embedding(Head(task.keep).text, outcome)} :
       \E done \in {[task EXCEPT !.at = "done", !.keep = <<>>]} :
          IF v # NoVector /\ AddRaises(task.new_index, v)
          THEN Leave(c, Left(done, index, metadata,
                             _save_storage(TRUE, index, metadata, index_file,
                                           metadata_file, Healthy)), <<>>)
          ELSE \E new_index \in {IF v = NoVector THEN task.new_index
                                    ELSE IndexAdd(task.new_index, v)} :
               \E new_metadata \in {IF v = NoVector THEN task.new_metadata
                                       ELSE Append(task.new_metadata, Head(task.keep))} :
                  IF Tail(task.keep) # <<>>
                  THEN Leave(c, Left([task EXCEPT !.keep = Tail(@),
                                                  !.new_index = new_index,
                                                  !.new_metadata = new_metadata],
                                     index, metadata, Files), <<>>)
                  ELSE Leave(c, Left([done EXCEPT !.new_index = new_index,
                                                  !.new_metadata = new_metadata],
                                     new_index, new_metadata,
                                     _save_storage(TRUE, new_index, new_metadata,
                                                   index_file, metadata_file, Healthy)),
                             <<>>)

\* The two coroutines on a provider with FAISS and the default filter, each
\* called once with messages that differ, so that each record of the store
\* is the record of one message of one call; every embedding call is
\* answered.
ConcurrentBatches ==
    {b \in SimpleBatches : \A i, j \in 1..Len(b) : i # j => b[i] # b[j]}

InitConcurrent ==
    /\ faiss_available = TRUE
    /\ index = IndexFlatL2(Dimension)
    /\ metadata = <<>>
    /\ index_file = AbsentIndexFile
    /\ metadata_file = AbsentMetadataFile
    /\ memory_filter = DefaultFilter
    /\ now = 1
    /\ pc = "idle"
    /\ pending = <<>>
    /\ caller = "none"
    /\ last = Step("init", "none")
    /\ faults = 0
    /\ tasks = [c \in Calls |-> NoTask]
    /\ devices = {} /\ request = NoRequest /\ listener = NoListener

NextConcurrent ==
    \/ \E c \in Calls, messages \in ConcurrentBatches : CallSave(c, messages)
    \/ \E c \in Calls : ResumeEmbed(c, "ok")
    \/ \E c \in Calls : ResumeClean(c, "ok")

SpecConcurrent == InitConcurrent /\ [][NextConcurrent]_vars

-----------------------------------------------------------------------------
(* Properties                                                              *)

\* a call has returned and no call is running
Returned == pc = "idle" /\ last.op \in {"save", "query", "clear"}

\* the metadata records that are not flagged no_embedding, in their order
EmbeddedRecords(meta) == SelectSeq(meta, LAMBDA m : ~NoEmbedding(m))

\* Invariant I1 of a provider that has an index
I1 ==
    /\ ntotal(index) = Len(EmbeddedRecords(metadata))
    /\ \A i \in 1..Min(ntotal(index), Len(EmbeddedRecords(metadata))) :
          index.xb[i] = EmbeddingOf(EmbeddedRecords(metadata)[i].text)

\* C1: whenever save_memory, query_memory or clean_all_memories has returned,
\* the index holds as many entries as the metadata holds records not flagged
\* no_embedding, and the i-th entry is the embedding of the i-th such record.
C1_IndexMatchesMetadata == (Returned /\ faiss_available) => I1

\* C2: every record query_memory returns through index search is a record
\* with an embedding, and its embedding is the index entry that was matched.
C2_HitIsMatchedRecord ==
    (last.op = "query" /\ last.path = "index") =>
        \A n \in 1..Len(last.results) :
            /\ ~NoEmbedding(last.results[n])
            /\ EmbeddingOf(last.results[n].text) = index.xb[last.labels[n] + 1]

\* C3: whenever save_memory has returned, the metadata holds at most
\* max_memories records (a provider with an index: the one that cleans).
C3_AtMostMaxMemories ==
    (pc = "idle" /\ last.op = "save" /\ faiss_available) => Len(metadata) <= MaxMemories

\* the score and the class of a record, under the threshold of cleaning
Score(m) == _calculate_importance(m.text)
IsImportant(m) == Score(m) >= CleanMinImportance(memory_filter)
ImportantOf(meta) == SelectSeq(EmbeddedRecords(meta), IsImportant)
UnimportantOf(meta) == SelectSeq(EmbeddedRecords(meta), LAMBDA m : ~IsImportant(m))

\* the number of times record m occurs in meta
Occurrences(meta, m) == Cardinality({i \in 1..Len(meta) : meta[i] = m})

\* this step is the end of a save_memory whose cleaning replaced the store
CleaningStep == pc = "save" /\ pc' = "idle" /\ last'.clean = "replaced"

\* C4: a cleaning whose embedding calls all succeed leaves every embedded
\* record that scores at least the threshold, in its order, and exactly
\* min(|unimportant|, max(0, floor(max_memories * 0.7) - |important|)) of the
\* unimportant ones; for max_memories = 100 and 91 records, 20 of them
\* important, that is 70 records.
C4_EvictionTarget ==
    [][(CleaningStep /\ last'.reembedded) =>
          LET important == ImportantOf(metadata)
              unimportant == UnimportantOf(metadata)
              kept == Min(Len(unimportant),
                          Max(0, (MaxMemories * 7) \div 10 - Len(important)))
          IN  /\ Len(metadata') = Len(important) + kept
              /\ SelectSeq(metadata', IsImportant) = important
              /\ Len(SelectSeq(metadata', LAMBDA m : ~IsImportant(m))) = kept
              /\ \A j \in 1..Len(metadata') :
                    Occurrences(metadata', metadata'[j])
                        <= Occurrences(EmbeddedRecords(metadata), metadata'[j])
              /\ 91 * ThresholdDen > 100 * ThresholdNum
              /\ 20 + Min(71, KeepCountFor(100, 20)) = 70
      ]_vars

\* C4 witness: a cleaning with every embedding call answered has discarded
\* an unimportant record and kept an important and an unimportant one
C4_Witness ==
    /\ pc = "idle" /\ last.clean = "replaced" /\ last.reembedded
    /\ Len(metadata) = TargetCount
    /\ \E i, j \in 1..Len(metadata) : IsImportant(metadata[i]) /\ ~IsImportant(metadata[j])

\* unimportant records of which the step keeps fewer copies than there were
DiscardedUnimportant ==
    {m \in {UnimportantOf(metadata)[i] : i \in 1..Len(UnimportantOf(metadata))} :
        Occurrences(metadata', m) < Occurrences(metadata, m)}

\* unimportant records the step leaves in the store
RetainedUnimportant ==
    {metadata'[j] : j \in {i \in 1..Len(metadata') : ~IsImportant(metadata'[i])}}

\* no discarded unimportant record is strictly later than a retained one
KeptByRecency ==
    \A d \in DiscardedUnimportant : \A r \in RetainedUnimportant :
        d.timestamp <= r.timestamp

C6_OwnRecordsOnly ==
    (pc = "idle" /\ last.op = "query") =>
        \A n \in 1..Len(last.results) : last.results[n].saved_for = last.role_id

\* this step is a pass of the loop of save_memory over a message that the
\* filter admitted and for which the embedding call gave nothing
UnembeddedPass == last'.op = "save" /\ last'.admitted /\ last'.outcome = "fail"

\* C7: when the embedding call fails for an admitted message, the record is
\* appended to the metadata with no_embedding set, the index is left as it
\* was, the call goes on to the messages that remain, and a save_memory
\* that ends does so after its last message and returns True.
C7_UnembeddedIsKept ==
    [][/\ UnembeddedPass =>
            /\ Len(metadata') = Len(metadata) + 1
            /\ SubSeq(metadata', 1, Len(metadata)) = metadata
            /\ NoEmbedding(metadata'[Len(metadata')])
            /\ metadata'[Len(metadata')].text = _build_memory_text(last'.message, now')
            /\ metadata'[Len(metadata')].role = last'.message.role
            /\ index' = index
            /\ pc' = "save" /\ ~last'.returned
            /\ pc = "save" => pending' = Tail(pending)
       /\ (pc = "save" /\ pc' = "idle") => (pending = <<>> /\ last'.ret = TRUE)
      ]_vars

\* C7 witness: the embedding call failed for the first message of a call and
\* answered for the second; the store holds the flagged record and then the
\* embedded one, and the call has returned True
C7_Witness ==
    /\ pc = "idle" /\ last.op = "save" /\ last.ret = TRUE
    /\ Len(metadata) = 2 /\ ntotal(index) = 1
    /\ NoEmbedding(metadata[1]) /\ ~NoEmbedding(metadata[2])

\* C8: a record flagged no_embedding stays in the metadata through every
\* step other than clean_all_memories.
C8_UnembeddedStays ==
    [][last'.op # "clear" =>
          \A i \in 1..Len(metadata) :
              NoEmbedding(metadata[i]) =>
                  \E j \in 1..Len(metadata') : metadata'[j] = metadata[i]
      ]_vars

\* results are the min(limit, n) latest of the n stored records, latest first
LatestFirst(results, meta, limit) ==
    /\ Len(results) = Min(limit, Len(meta))
    /\ \A i, j \in 1..Len(results) : i < j => results[i].timestamp >= results[j].timestamp
    /\ \A i \in 1..Len(results) :
          Occurrences(results, results[i]) <= Occurrences(meta, results[i])
    /\ \A i \in 1..Len(meta) :
          Occurrences(results, meta[i]) < Occurrences(meta, meta[i]) =>
              \A j \in 1..Len(results) : meta[i].timestamp <= results[j].timestamp

\* C9: a query_memory made without faiss, or whose embedding call gave
\* nothing, returns the min(limit, n) records of latest timestamp among the
\* n stored, in descending order of timestamp.
C9_RecencyFallback ==
    (pc = "idle" /\ last.op = "query" /\ (~faiss_available \/ last.outcome = "fail")) =>
        LatestFirst(last.results, metadata, last.limit)

\* C9 witness: the embedding call of a query with limit 1 gave nothing, over
\* two records of which the first stored is the later one, and the query
\* returned that one
C9_Witness ==
    /\ pc = "idle" /\ last.op = "query" /\ faiss_available /\ last.outcome = "fail"
    /\ last.limit = 1 /\ Len(metadata) = 2
    /\ metadata[1].timestamp > metadata[2].timestamp
    /\ last.results = <<metadata[1]>>

\* C10: over a store with an index whose records all lack an embedding,
\* query_memory returns the latest records as the recency fallback does,
\* whatever the embedding call of the query gives.
C10_NoneEmbeddedFallsBack ==
    (/\ pc = "idle" /\ last.op = "query" /\ faiss_available
     /\ Len(metadata) > 0
     /\ \A i \in 1..Len(metadata) : NoEmbedding(metadata[i])) =>
        LatestFirst(last.results, metadata, last.limit)

\* C11: every record that query_memory returns from the index search carries
\* the similarity 1 / (1 + d) of its distance d to the query, that
\* similarity is at least similarity_threshold (d is at most
\* 1 / threshold - 1), and the records come by non-decreasing distance.
C11_ThresholdAndOrder ==
    (pc = "idle" /\ last.op = "query" /\ last.path = "index") =>
        \E q \in QueryTexts :
            LET d(n) == Distance(index.xb[last.labels[n] + 1], EmbeddingOf(q))
                unit == VectorScale * VectorScale
            IN  \A n \in 1..Len(last.results) :
                    /\ last.results[n].similarity = <<unit, unit + d(n)>>
                    /\ 100 * unit >= SimilarityThresholdPct * (unit + d(n))
                    /\ SimilarityThresholdPct * d(n) <= (100 - SimilarityThresholdPct) * unit
                    /\ \A m \in 1..n : d(m) <= d(n)

\* C11 witness: an index search has returned two records at different
\* distances from the query
C11_Witness ==
    /\ pc = "idle" /\ last.op = "query" /\ last.path = "index"
    /\ Len(last.results) = 2
    /\ last.results[1].similarity[2] < last.results[2].similarity[2]

\* C12: every record that query_memory returns carries a similarity, on the
\* index search and on the recency fallbacks.
C12_EveryResultAnnotated ==
    (pc = "idle" /\ last.op = "query") =>
        \A n \in 1..Len(last.results) : "similarity" \in DOMAIN last.results[n]

\* C13: every clean_all_memories, the first and one that follows another,
\* leaves the index and the metadata empty, and a query_memory that comes
\* next returns the empty list, with FAISS and without.
C13_ClearAllEmpties ==
    [][/\ last'.op = "clear" => (metadata' = <<>> /\ ntotal(index') = 0)
       /\ (last.op = "clear" /\ last'.op = "query") => last'.results = <<>>
      ]_vars

\* C13 witness: clean_all_memories has emptied a store with an index whose
\* records are still in the files, which it could not write
C13_Witness ==
    /\ pc = "idle" /\ last.op = "clear" /\ faiss_available
    /\ metadata = <<>> /\ ntotal(index) = 0
    /\ Len(metadata_file.content) > 0 /\ ntotal(index_file.content) > 0

\* the text that the pass of the save loop made by this step has built
PassText == _build_memory_text(last'.message, now')

\* C14: a pass of the save loop admits its text exactly when filtering is
\* disabled, or the length of the text lies between min_text_length and
\* max_text_length, both included, and the keyword list is empty or holds a
\* word of the text, and min_importance is not positive or the score reaches
\* it.
C14_Admission ==
    [][(last'.op = "save" /\ last'.message # NoMessage) =>
          (last'.admitted <=>
              \/ ~Get(memory_filter, "enabled", TRUE)
              \/ /\ Get(memory_filter, "min_text_length", 10) <= TextLen(PassText)
                 /\ TextLen(PassText) <= Get(memory_filter, "max_text_length", 3000)
                 /\ \/ Get(memory_filter, "keywords", {}) = {}
                    \/ \E i \in 1..Len(PassText) :
                          PassText[i] \in Get(memory_filter, "keywords", {})
                 /\ \/ Get(memory_filter, "min_importance", 0) <= 0
                    \/ Score([text |-> PassText]) >= Get(memory_filter, "min_importance", 0))
      ]_vars

\* C14 witness: filtering is enabled and a pass has admitted a text whose
\* length is min_text_length and max_text_length at once and whose score is
\* min_importance
C14_Witness ==
    /\ pc = "save" /\ last.admitted /\ memory_filter # DefaultFilter
    /\ memory_filter.enabled
    /\ memory_filter.keywords # {}
    /\ TextLen(_build_memory_text(last.message, now)) = memory_filter.min_text_length
    /\ TextLen(_build_memory_text(last.message, now)) = memory_filter.max_text_length
    /\ _calculate_importance(_build_memory_text(last.message, now)) = memory_filter.min_importance

\* 1 if some token of text satisfies Hit, else 0
Once(text, Hit(_)) == IF {i \in 1..Len(text) : Hit(text[i])} # {} THEN 1 ELSE 0

\* the score of the claim: each category counts once
ClaimedScore(text) ==
    Min(10, 1 + 2 * Once(text, LAMBDA w : w \in OperationWords)
              + Once(text, HasDigit)
              + (IF HasTime(text) THEN 1 ELSE 0)
              + Once(text, LAMBDA w : w \in Devices)
              + Once(text, LAMBDA w : w \in Emotions))

\* the claim, of one text
ScoredAsClaimed(text) ==
    /\ _calculate_importance(text) \in 1..10
    /\ _calculate_importance(text) = ClaimedScore(text)
    /\ _calculate_importance(text \o text) = _calculate_importance(text)
    /\ \A w \in ScoreWords :
          _calculate_importance(Append(text, w)) >= _calculate_importance(text)

C16_WrittenTogether ==
    (pc = "idle" /\ faiss_available) =>
        /\ index_file.exists = metadata_file.exists
        /\ index_file.readable = metadata_file.readable
        /\ ntotal(index_file.content) = Len(EmbeddedRecords(metadata_file.content))

\* this step is a save_memory or clean_all_memories during which a file
\* write failed
FailedWrite == faults' > faults /\ last'.op \in {"save", "clear"}

\* C17: a call during which a file write fails returns all the same, and
\* leaves the index and the metadata in memory as the call had made them
\* before it wrote: a clean_all_memories leaves them empty, the end of a
\* save_memory leaves every record (and the index, unless it was rebuilt),
\* and a save_memory without FAISS keeps the records it appended and returns
\* True.
C17_FailedWriteIsHarmless ==
    [][FailedWrite =>
          /\ pc' = "idle" /\ last'.returned /\ last'.ret \in BOOLEAN
          /\ last'.op = "clear" => (metadata' = <<>> /\ ntotal(index') = 0)
          /\ (last'.op = "save" /\ pc = "save") =>
                /\ metadata' = metadata
                /\ last'.clean = "none" => index' = index
                /\ ntotal(index') = Len(metadata') \/ index' = index
                /\ last'.ret = TRUE
          /\ (last'.op = "save" /\ pc = "idle") =>
                /\ Len(metadata') > Len(metadata)
                /\ SubSeq(metadata', 1, Len(metadata)) = metadata
                /\ index' = index
                /\ last'.ret = TRUE
      ]_vars

\* C17 witness: a save_memory without FAISS has returned True with its
\* record in memory, and the metadata file, which it could not open, is not
\* there
C17_Witness ==
    /\ pc = "idle" /\ last.op = "save" /\ last.ret = TRUE /\ ~faiss_available
    /\ faults > 0
    /\ Len(metadata) > 0 /\ ~metadata_file.exists

\* the files hold what is in memory
Persisted ==
    /\ metadata_file.exists /\ metadata_file.readable /\ metadata_file.content = metadata
    /\ faiss_available =>
          (index_file.exists /\ index_file.readable /\ index_file.content = index)

\* C18: when save_memory has returned True with the store written to the
\* files, a new provider started over these files in the same environment
\* holds the same metadata and the same index.
C18_RoundTrip ==
    [][(/\ pc = "idle" /\ last.op = "save" /\ last.ret = TRUE /\ Persisted
        /\ last'.op = "init" /\ faiss_available' = faiss_available) =>
            (metadata' = metadata /\ index' = index)
      ]_vars

\* C19: no call ends otherwise than by returning: between calls the last
\* call has returned, save_memory and clean_all_memories a boolean and
\* query_memory a list of at most limit records; a save_memory in which
\* index.add raised has returned False, and a query_memory whose embedding
\* call failed or whose index.search raised has returned the latest records.
C19_NothingEscapes ==
    pc = "idle" =>
        /\ last.returned
        /\ last.op \in {"save", "clear"} => last.ret \in BOOLEAN
        /\ (last.op = "save" /\ last.admitted /\ last.outcome = "wrong_dimension") =>
              last.ret = FALSE
        /\ last.op = "query" =>
              /\ DOMAIN last.results = 1..Len(last.results)
              /\ Len(last.results) <= last.limit
              /\ last.path \in {"recency", "index"}
              /\ last.outcome \in {"fail", "wrong_dimension"} =>
                    LatestFirst(last.results, metadata, last.limit)

\* C19 witness: index.search raised on a query vector of another dimension,
\* over a store with an embedded record, and query_memory returned that
\* record by recency
C19_Witness ==
    /\ pc = "idle" /\ last.op = "query" /\ last.outcome = "wrong_dimension"
    /\ ntotal(index) > 0
    /\ last.path = "recency" /\ Len(last.results) > 0

\* this step is the end of a save_memory, with an index, that returns True
SaveEnds == pc = "save" /\ pc' = "idle" /\ faiss_available /\ last'.ret = TRUE

\* C20 as stated: a save_memory cleans at its end exactly when the records
\* that have an embedding are more than max_memories * clean_threshold.
C20_TriggerOnEmbedded ==
    [][SaveEnds =>
          (last'.clean # "none" <=>
              Len(EmbeddedRecords(metadata)) * ThresholdDen > MaxMemories * ThresholdNum)
      ]_vars

\* C20: a save_memory cleans at its end exactly when the records of the
\* metadata, with an embedding or without, are more than
\* max_memories * clean_threshold.
C20_TriggerOnRecords ==
    [][SaveEnds =>
          (last'.clean # "none" <=>
              Len(metadata) * ThresholdDen > MaxMemories * ThresholdNum)
      ]_vars

\* C20 witness: under the default filter a cleaning whose embedding calls
\* all succeeded has left at most one record: the embedded records were not
\* above the threshold when it started
C20_Witness ==
    /\ pc = "idle" /\ last.clean = "replaced" /\ last.reembedded
    /\ memory_filter = DefaultFilter
    /\ Len(metadata) <= 1

\* the records that this step has appended
Appended == {metadata'[i] : i \in (Len(metadata) + 1)..Len(metadata')}

\* C21: every record that a save_memory step appends, with FAISS or without,
\* with an embedding or without, has the time of its message as timestamp:
\* the timestamp of the message where it has one (the time that the first
\* line of the record text shows), the reading of the clock otherwise.
C21_TimestampOfMessage ==
    [][last'.op = "save" =>
          \A r \in Appended :
              /\ r.text[3] = ToString(r.timestamp)
              /\ last'.message # NoMessage =>
                    r.timestamp = IF last'.message.timestamp # NoTimestamp
                                  THEN last'.message.timestamp ELSE now'
      ]_vars

\* C22: every vector that _get_embedding hands to a pass of the save loop
\* has the configured dimension.
C22_VectorOfDimension ==
    [][(last'.op = "save" /\ last'.admitted) =>
          \/ _get_embedding(PassText, last'.outcome) = NoVector
          \/ Len(_get_embedding(PassText, last'.outcome)) = Dimension
      ]_vars

RECURSIVE IsSubseq(_, _)
IsSubseq(s, t) ==
    IF s = <<>> THEN TRUE
    ELSE IF t = <<>> THEN FALSE
    ELSE IF Head(s) = Head(t) THEN IsSubseq(Tail(s), Tail(t))
    ELSE IsSubseq(s, Tail(t))

\* C24: after a cleaning, metadata lists first the important survivors in
\* the order they had before, then the unimportant survivors from the most
\* recent to the least recent, and entry i of the index is the embedding of
\* the text of record i.
C24_SurvivorsInOrder ==
    [][CleaningStep =>
          LET important == SelectSeq(metadata', IsImportant)
              k == Len(important)
          IN  /\ SubSeq(metadata', 1, k) = important
              /\ IsSubseq(important, ImportantOf(metadata))
              /\ last'.reembedded => important = ImportantOf(metadata)
              /\ \A i \in (k + 1)..Len(metadata') : \A j \in (i + 1)..Len(metadata') :
                    metadata'[i].timestamp >= metadata'[j].timestamp
              /\ ntotal(index') = Len(metadata')
              /\ \A i \in 1..Len(metadata') :
                    index'.xb[i] = EmbeddingOf(metadata'[i].text)
      ]_vars

\* C24 witness: a cleaning has left two unimportant records alone, the later
\* one first although it was stored after the earlier one
C24_Witness ==
    /\ pc = "idle" /\ last.clean = "replaced"
    /\ Len(metadata) = 2
    /\ ~IsImportant(metadata[1]) /\ ~IsImportant(metadata[2])
    /\ metadata[1].timestamp > metadata[2].timestamp

\* this step is the end of a save_memory that ran _clean_memories, and every
\* embedding call of the rebuild was answered with a vector or failed
CleaningEnds ==
    /\ pc = "save" /\ pc' = "idle" /\ last'.clean # "none"
    /\ \A j \in 1..Len(last'.outcomes) : last'.outcomes[j] \in {"ok", "fail"}

\* the positions of keep_memories whose embedding call was answered
Reembedded(keep, outcomes) ==
    SelectSeq([j \in 1..Len(keep) |-> j], LAMBDA j : outcomes[j] = "ok")

\* C25: when embedding calls of the rebuild fail, the cleaning still
\* replaces the store and writes it: the new metadata is keep_memories
\* without the records whose call failed, the new index holds the vectors
\* of the others, and both files hold the new store.
C25_FailedAreDropped ==
    [][CleaningEnds =>
          LET keep == KeepMemories(metadata, memory_filter)
              answered == Reembedded(keep, last'.outcomes)
          IN  /\ last'.clean = "replaced"
              /\ metadata' = [j \in 1..Len(answered) |-> metadata[keep[answered[j]]]]
              /\ index'.xb = [j \in 1..Len(answered) |->
                                 EmbeddingOf(metadata[keep[answered[j]]].text)]
              /\ index_file'.exists /\ index_file'.readable
              /\ index_file'.content = index'
              /\ metadata_file'.exists /\ metadata_file'.readable
              /\ metadata_file'.content = metadata'
      ]_vars

\* C25 witness: a cleaning in which an embedding call failed and another
\* was answered has replaced the store and left a record
C25_Witness ==
    /\ pc = "idle" /\ last.clean = "replaced"
    /\ \E j \in 1..Len(last.outcomes) : last.outcomes[j] = "fail"
    /\ \E j \in 1..Len(last.outcomes) : last.outcomes[j] = "ok"
    /\ metadata # <<>>
    /\ metadata_file.content = metadata

\* what _initialize_storage makes of a file: its content if the file is
\* there and can be read, and empty otherwise
Loaded(file, empty) == IF file.exists /\ file.readable THEN file.content ELSE empty

\* this step is the __init__ of a new process that has imported FAISS
LoadStep == pc = "idle" /\ last'.op = "init" /\ faiss_available'

\* C26: when a process starts with FAISS, the index it holds depends on the
\* index file alone and the metadata on the metadata file alone: each is the
\* content of its file if that file is there and can be read, and empty
\* otherwise; __init__ returns in every case and leaves both files.
C26_DegradeIndependently ==
    [][LoadStep =>
          /\ index' = Loaded(index_file, IndexFlatL2(Dimension))
          /\ metadata' = Loaded(metadata_file, <<>>)
          /\ last'.returned
          /\ index_file' = index_file /\ metadata_file' = metadata_file
      ]_vars

\* C26 witness: a process has started over an index file that cannot be
\* read: its index is empty and its metadata is the content of the
\* metadata file, with records
C26_Witness ==
    /\ last.op = "init" /\ faiss_available
    /\ index_file.exists /\ ~index_file.readable
    /\ ntotal(index) = 0
    /\ metadata # <<>> /\ metadata = metadata_file.content

\* the other half: a process has started over a metadata file that cannot
\* be read, with no records and with the vectors of the index file
C26_WitnessMetadata ==
    /\ last.op = "init" /\ faiss_available
    /\ metadata_file.exists /\ ~metadata_file.readable
    /\ metadata = <<>>
    /\ ntotal(index) > 0 /\ index = index_file.content

\* this step is a pass of the save loop, over last'.message
SavePass == last'.op = "save" /\ last'.message # NoMessage

\* C27: a pass of the save loop over a message that _filter_memory rejects
\* leaves the metadata and the index as they were and calls no embedding;
\* a pass over an admitted message puts its record after the records
\* there were and its vector after the vectors; the passes of a call take
\* its messages in their order.
C27_RejectedChangesNothing ==
    [][SavePass =>
          /\ last'.admitted = _filter_memory(PassText, memory_filter)
          /\ ~last'.admitted =>
                /\ metadata' = metadata
                /\ index' = index
                /\ last'.outcome = "none"
          /\ last'.admitted =>
                /\ metadata' = Append(metadata, EmbeddedRecord(last'.message, now', last'.role_id))
                /\ index' = IndexAdd(index, EmbeddingOf(PassText))
          /\ pc = "save" => (last'.message = Head(pending) /\ pending' = Tail(pending))
      ]_vars

\* C27 witness: in a save_memory that has stored a message, the pass over
\* the next message has rejected it, and a further message is to come
C27_Witness ==
    /\ pc = "save" /\ last.message # NoMessage /\ ~last.admitted
    /\ metadata # <<>>
    /\ pending # <<>>

\* C28: a query_memory, whether it searches the index, returns the latest
\* records or catches an exception, leaves the metadata, every field of
\* every record, the index and the two files as they were; no stored record
\* has a similarity, which is put on the copy that is returned.
C28_QueryReadsOnly ==
    [][last'.op = "query" =>
          /\ metadata' = metadata
          /\ index' = index
          /\ index_file' = index_file /\ metadata_file' = metadata_file
          /\ \A i \in 1..Len(metadata') : "similarity" \notin DOMAIN metadata'[i]
          /\ last'.path = "index" =>
                \A n \in 1..Len(last'.results) :
                    /\ "similarity" \in DOMAIN last'.results[n]
                    /\ \A f \in DOMAIN metadata[last'.labels[n] + 1] :
                          last'.results[n][f] = metadata[last'.labels[n] + 1][f]
      ]_vars

\* C28 witness: a query_memory has returned a record of the search with its
\* similarity, and the stored record has none
C28_Witness ==
    /\ last.op = "query" /\ last.path = "index"
    /\ last.results # <<>>
    /\ "similarity" \in DOMAIN last.results[1]
    /\ "similarity" \notin DOMAIN metadata[last.labels[1] + 1]

\* the other outcomes: a query_memory in which index.search raised has
\* returned the latest records of a store that holds some
C28_WitnessError ==
    /\ last.op = "query" /\ last.path = "recency" /\ last.outcome = "wrong_dimension"
    /\ last.results # <<>>

\* the text of a message without the line of the time: its role, its tool
\* and its content
OwnText(message) ==
    <<"juese: ", message.role>>
        \o (IF message.tool_name # NoneValue
            THEN <<"/gongju: ", message.tool_name>> ELSE <<>>)
        \o (IF message.tool_call_id # NoneValue
            THEN <<"/diaoyongID: ", message.tool_call_id>> ELSE <<>>)
        \o <<"/neirong: ">> \o message.content

\* C29: the score of the text that a pass of the save loop builds is the
\* score of the role and the content of its message, the line of the time
\* adding nothing; the record of a message whose content earns no bonus
\* scores less than 3, below the default threshold of cleaning.
C29_TimeLineAddsNothing ==
    [][(SavePass /\ faiss_available) =>
          /\ _calculate_importance(PassText) = _calculate_importance(OwnText(last'.message))
          /\ \A r \in Appended :
                _calculate_importance(last'.message.content) = 1 =>
                    /\ Score(r) < 3
                    /\ Score(r) < CleanMinImportance(DefaultFilter)
      ]_vars

\* the index holds the vectors of the records, one for one
Aligned(idx, meta) ==
    /\ ntotal(idx) = Len(meta)
    /\ \A i \in 1..Len(meta) : idx.xb[i] = EmbeddingOf(meta[i].text)

\* this step is the end of a save_memory, with its size check
SizeCheckStep == pc = "save" /\ pc' = "idle" /\ pending = <<>> /\ last'.op = "save"

\* C30: the end of a save_memory leaves either the index and the metadata
\* of before, or the index and the metadata that _clean_memories rebuilt,
\* one vector for each record; a _clean_memories that catches an exception
\* leaves both as they were.
C30_ReplacedAsPair ==
    [][SizeCheckStep =>
          /\ \/ index' = index /\ metadata' = metadata
             \/ /\ last'.clean = "replaced"
                /\ index' = Rebuilt(metadata, memory_filter, last'.outcomes).index
                /\ metadata' = Rebuilt(metadata, memory_filter, last'.outcomes).metadata
                /\ Aligned(index', metadata')
          /\ last'.clean # "replaced" => (index' = index /\ metadata' = metadata)
          /\ last'.clean = "aborted" <=>
                (last'.clean # "none"
                    /\ Rebuilt(metadata, memory_filter, last'.outcomes).raised)
      ]_vars

\* C30 witness: a _clean_memories whose new index had taken a vector has
\* caught the exception of the next one, and the save_memory has returned
\* with the records and the index of before
C30_Witness ==
    /\ pc = "idle" /\ last.op = "save" /\ last.clean = "aborted"
    /\ Len(last.outcomes) >= 2
    /\ last.outcomes[1] = "ok" /\ last.outcomes[2] = "wrong_dimension"
    /\ OverThreshold(metadata)
    /\ ntotal(index) = Len(metadata)

\* the records a save_memory without FAISS makes of messages at time t
StoredSimply(messages, t, role_id) ==
    LET admitted == SelectSeq(messages,
                        LAMBDA m : _filter_memory(_build_memory_text(m, t), memory_filter))
    IN  [j \in 1..Len(admitted) |->
            [text |-> _build_memory_text(admitted[j], t), timestamp |-> t,
             role |-> admitted[j].role, saved_for |-> role_id]]

\* C31: a save_memory without FAISS leaves at most 1000 records: the
\* records of before followed by those of the admitted messages of the
\* call, in their order, less the first ones beyond 1000; it returns True,
\* whether the metadata file was written or not.
C31_SimpleStoreCapped ==
    [][(pc = "idle" /\ last'.op = "save" /\ ~faiss_available) =>
          LET grown == metadata \o StoredSimply(last'.messages, now', last'.role_id)
          IN  /\ Len(metadata') = Min(Len(grown), 1000)
              /\ metadata' = SubSeq(grown, Len(grown) - Len(metadata') + 1, Len(grown))
              /\ last'.returned /\ last'.ret = TRUE
              /\ pc' = "idle"
      ]_vars

\* C31 witness: a save_memory without FAISS of a greeting, which is not
\* admitted, and a command has returned True although the metadata file
\* could not be opened; the store holds 1000 records, from which records of
\* the first clock reading have been dropped for those of the second
C31_Witness ==
    /\ pc = "idle" /\ last.op = "save" /\ ~faiss_available /\ last.ret = TRUE
    /\ last.messages = <<Greeting, CommandMessage>>
    /\ Len(metadata) = 1000
    /\ metadata[1].timestamp = 1 /\ metadata[998].timestamp = 2
    /\ faults > 0 /\ metadata_file.content # metadata

\* C32: when save_memory has returned False, the metadata and the index in
\* memory are those of before the call, which the files hold: no record of
\* the call is left.  (Every write succeeds, so the files hold the store as
\* the last save_memory that returned True left it, or nothing.)
C32_FailedSaveLeavesNothing ==
    (pc = "idle" /\ last.op = "save" /\ last.ret = FALSE) =>
        /\ metadata = Loaded(metadata_file, <<>>)
        /\ index = Loaded(index_file, IndexFlatL2(Dimension))

\* both coroutines have returned
AllReturned == \A c \in Calls : tasks[c].at = "done"

\* the number of records that the call of c has in the store
StoredFor(c) == Cardinality({i \in 1..Len(metadata) : metadata[i].saved_for = c})

\* C33: while two save_memory coroutines take turns at their embedding
\* calls, the index holds one entry for each record that has an embedding,
\* in the order of the records; and when both have returned, every admitted
\* message of either call has exactly one record in the store.
C33_LockstepAndOnce ==
    /\ I1
    /\ AllReturned =>
          \A c \in Calls :
              StoredFor(c) = Len(FromAdmitted(tasks[c].messages, now))

\* the half of C33 that holds
C33_Lockstep == I1

\* C34: when both coroutines have returned, every record that one appended
\* while the other waited in the rebuild of _clean_memories is in the
\* metadata, and its vector in the index.
C34_AppendedDuringRebuildStays ==
    AllReturned =>
        \A c \in Calls : \A n \in 1..Len(tasks[c].late) :
            \E i \in 1..Len(metadata) :
                /\ metadata[i] = tasks[c].late[n]
                /\ ~NoEmbedding(metadata[i]) =>
                      EmbeddingOf(metadata[i].text) \in {index.xb[j] : j \in 1..ntotal(index)}

-----------------------------------------------------------------------------
(* Device registration and activation: OTAHandler (core/api/ota_handler.py) *)
(* and SimpleOtaServer (core/ota_server.py) over the devices table of      *)
(* data/data.db                                                            *)

\* the variables of the vector memory provider
MemoryVars == <<faiss_available, index, metadata, index_file, metadata_file,
                memory_filter, now, pc, pending, caller, last, faults, tasks>>

\* the device-id headers of the requests
DeviceIds == {"esp-1", "esp-2"}
\* the template-secret header of the requests
TemplateSecret == "secret"
\* the two servers of the OTA POST, and a direct call of check_or_create_device
Handlers == {"OTAHandler", "SimpleOtaServer"}
\* random.randint(100000, 999999)
LowCode == 100000
HighCode == 999999
\* the values that random.randint returns in the model
Draws == {LowCode, LowCode + 1, HighCode}
\* max_attempts = 100
max_attempts == 100
\* auth_type of the voucher
AuthTypes == {"auto", "manual"}
\* what a call of the platform client answers: its value, or an exception
PlatformAnswers == {"True", "False", "Exception"}

\* str(n) of a natural number: its decimal digits
RECURSIVE str(_)
str(n) == IF n < 10 THEN <<n>> ELSE Append(str(n \div 10), n % 10)

\* SELECT * FROM devices WHERE device_id = ?
SelectByDeviceId(table, device_id) == {r \in table : r.device_id = device_id}

\* SELECT device_id FROM devices WHERE verify_code = ?
SelectByVerifyCode(table, verify_code) == {r \in table : r.verify_code = verify_code}

\* INSERT INTO devices, under PRIMARY KEY (device_id) and the unique index
\* idx_devices_verify_code_unique
Insert(table, row) ==
    IF \/ SelectByDeviceId(table, row.device_id) # {}
       \/ SelectByVerifyCode(table, row.verify_code) # {}
    THEN [IntegrityError |-> TRUE, table |-> table]
    ELSE [IntegrityError |-> FALSE, table |-> table \cup {row}]

\* UPDATE devices SET status = ? WHERE device_id = ?
update_device_status(table, device_id, status) ==
    {IF r.device_id = device_id THEN [r EXCEPT !.status = status] ELSE r : r \in table}

\* a variant of the test of a drawn code that accepts every code
AnyCode(verify_code, table) == TRUE

\* db.fetchone() is None after the SELECT by verify_code
Unused(verify_code, table) ==
    SelectByVerifyCode(table, verify_code) = {}

\* the row that check_or_create_device inserts
NewDevice(device_id, template_secret, verify_code) ==
    [device_id |-> device_id, device_name |-> <<"ESP-", verify_code>>,
     template_secret |-> template_secret, verify_code |-> verify_code,
     status |-> "pending"]

\* check_or_create_device up to its loop: the SELECT by device_id, and the
\* return of the stored row of a known device
CheckDevice(handler, device_id) ==
    /\ request.at = "idle"
    /\ LET found == SelectByDeviceId(devices, device_id)
           call  == [NoRequest EXCEPT !.handler = handler, !.device_id = device_id,
                                      !.template_secret = TemplateSecret]
       IN  request' = IF found # {}
                      THEN [call EXCEPT !.at = "checked",
                                        !.device_info = CHOOSE r \in found : TRUE]
                      ELSE [call EXCEPT !.at = "draw"]
    /\ UNCHANGED <<MemoryVars, devices, listener>>

\* one pass of the loop over range(max_attempts): a code is drawn; an
\* unused one ends the loop and is inserted, a used one after the last
\* pass makes the call return None
DrawCode(n) ==
    /\ request.at = "draw"
    /\ LET verify_code == str(n)
           row         == NewDevice(request.device_id, request.template_secret, verify_code)
           inserted    == Insert(devices, row)
           attempts    == request.attempts + 1
       IN  IF Unused(verify_code, devices)
           THEN IF inserted.IntegrityError
                THEN /\ request' = [request EXCEPT !.at = "checked", !.attempts = attempts,
                                                   !.device_info = NoDevice]
                     /\ UNCHANGED devices
                ELSE /\ request' = [request EXCEPT !.at = "checked", !.attempts = attempts,
                                                   !.device_info = row, !.created = TRUE]
                     /\ devices' = inserted.table
           ELSE /\ request' = IF attempts = max_attempts
                              THEN [request EXCEPT !.at = "checked", !.attempts = attempts,
                                                   !.device_info = NoDevice]
                              ELSE [request EXCEPT !.attempts = attempts]
                /\ UNCHANGED devices
    /\ UNCHANGED <<MemoryVars, listener>>

\* check_or_create_device returns its device_info to a caller that is not a
\* request handler
ReturnDevice ==
    /\ request.at = "checked" /\ request.handler = "none"
    /\ request' = [request EXCEPT !.at = "idle"]
    /\ UNCHANGED <<MemoryVars, devices, listener>>

\* update_device_online_status(device_number, is_online) of core/utils/tp.py
update_device_online_status(args, answer) ==
    IF Len(args) # 2 THEN "TypeError" ELSE answer

\* authenticate_device(template_secret, device_number, device_name=None,
\* product_key=None) of core/utils/tp.py
authenticate_device(args, answer) ==
    IF Len(args) < 2 \/ Len(args) > 4 THEN "TypeError" ELSE answer

\* get_device_config_by_number(device_number) of core/utils/tp.py
get_device_config_by_number(args, answer) ==
    IF Len(args) # 1 THEN "TypeError" ELSE answer

\* the outcomes of a call that raised
Raised == {"Exception", "TypeError"}

\* the except branch of the handlers: the response is the empty string
ErrorResponse == [error |-> TRUE, activation |-> NoActivation]

\* return_json["activation"]
Activation(verify_code, device_id) == [code |-> verify_code, challenge |-> device_id]

\* return_json without and with an activation block
Response(activation) == [error |-> FALSE, activation |-> activation]

\* OTAHandler.handle_post from the return of check_or_create_device to the
\* response; the result is the table and the response
handle_post(table, device_id, template_secret, device_info, tp_auth_type, online, auth, config) ==
    IF device_info = NoDevice
    THEN [table |-> table, response |-> ErrorResponse]
    ELSE
    LET verify_code == device_info.verify_code
        is_online   == update_device_online_status(<<template_secret, device_id, TRUE>>, online)
        auth_result == IF tp_auth_type = "auto"
                       THEN authenticate_device(
                                <<template_secret, device_id, device_info.device_name>>, auth)
                       ELSE is_online
        synced      == get_device_config_by_number(<<template_secret, device_id>>, config)
    IN  IF is_online \in Raised \/ auth_result \in Raised
        THEN [table |-> table, response |-> ErrorResponse]
        ELSE IF auth_result = "False"
        THEN [table    |-> update_device_status(table, device_id, "pending"),
              response |-> Response(Activation(verify_code, device_id))]
        ELSE [table    |-> update_device_status(table, device_id, "activated"),
              response |-> IF synced \in Raised THEN ErrorResponse
                           ELSE Response(NoActivation)]

\* SimpleOtaServer._handle_ota_request from the return of
\* check_or_create_device to the response
handle_ota_request(table, device_id, template_secret, device_info, tp_auth_type, online, auth) ==
    IF device_info = NoDevice
    THEN [table |-> table, response |-> ErrorResponse]
    ELSE
    LET is_online   == update_device_online_status(<<device_id, TRUE>>, online)
        auth_result == IF tp_auth_type = "auto"
                       THEN authenticate_device(
                                <<template_secret, device_id, device_info.device_name>>, auth)
                       ELSE is_online
    IN  IF is_online \in Raised \/ auth_result \in Raised
        THEN [table |-> table, response |-> ErrorResponse]
        ELSE IF auth_result = "False"
        THEN [table    |-> table,
              response |-> Response(Activation(device_info.verify_code, device_id))]
        ELSE [table    |-> IF tp_auth_type = "auto" THEN table
                           ELSE update_device_status(table, device_id, "activated"),
              response |-> Response(NoActivation)]

\* the rest of an OTA POST once check_or_create_device has returned
Respond(tp_auth_type, online, auth, config) ==
    /\ request.at = "checked" /\ request.handler \in Handlers
    /\ LET done == IF request.handler = "OTAHandler"
                   THEN handle_post(devices, request.device_id, request.template_secret,
                                    request.device_info, tp_auth_type, online, auth, config)
                   ELSE handle_ota_request(devices, request.device_id,
                                    request.template_secret, request.device_info,
                                    tp_auth_type, online, auth)
       IN  /\ devices' = done.table
           /\ request' = [request EXCEPT !.at = "idle", !.response = done.response,
                                         !.auth_type = tp_auth_type,
                                         !.online = online, !.auth = auth]
    /\ UNCHANGED <<MemoryVars, listener>>

InitDevices == InitStorage /\ faiss_available

NextDevices ==
    \/ \E handler \in Handlers \cup {"none"}, device_id \in DeviceIds :
           CheckDevice(handler, device_id)
    \/ \E n \in Draws : DrawCode(n)
    \/ ReturnDevice
    \/ \E tp_auth_type \in AuthTypes, online, auth, config \in PlatformAnswers :
           Respond(tp_auth_type, online, auth, config)

SpecDevices == InitDevices /\ [][NextDevices]_vars

\* no two rows of the table share a device_id or a verify_code
UniqueDevices(table) ==
    \A r1, r2 \in table :
        (r1.device_id = r2.device_id \/ r1.verify_code = r2.verify_code) => r1 = r2

\* a string of six decimal digits
SixDigits(code) == Len(code) = 6 /\ \A i \in 1..6 : code[i] \in 0..9

\* C35: after every step of check_or_create_device the devices table holds
\* at most one row per device_id and no two rows share a verify_code.  A call
\* for a known device_id changes nothing and returns the stored row with its
\* verify_code.  A call for an unknown device_id that finds an unused code
\* adds exactly one row, for that device_id, with status 'pending' and a
\* 6-digit code that no row held before.  A call returns None only after
\* 100 draws, and then nothing is inserted.
C35_DeviceRegistration ==
    [][ /\ UniqueDevices(devices')
        /\ (request.at = "idle" /\ request'.at = "checked") =>
              /\ devices' = devices
              /\ request'.device_info \in devices
              /\ request'.device_info.device_id = request'.device_id
        /\ (request.at = "idle" /\ request'.at = "draw") =>
              /\ devices' = devices
              /\ SelectByDeviceId(devices, request'.device_id) = {}
        /\ (request.at = "draw" /\ request'.at = "draw") =>
              /\ devices' = devices
              /\ request'.attempts < max_attempts
        /\ (request.at = "draw" /\ request'.at = "checked") =>
              IF request'.device_info = NoDevice
              THEN devices' = devices /\ request'.attempts = max_attempts
              ELSE LET row == request'.device_info
                   IN  /\ devices' = devices \cup {row} /\ row \notin devices
                       /\ row.device_id = request.device_id
                       /\ row.status = "pending"
                       /\ SixDigits(row.verify_code)
                       /\ \A r \in devices : r.verify_code # row.verify_code
        /\ (request.at = "checked" /\ request.handler = "none") =>
              /\ devices' = devices
              /\ request'.device_info = request.device_info
      ]_vars

\* C35 witness: with one device registered, a call of check_or_create_device
\* for the other device has drawn the code of the first 100 times and has
\* returned None; the table still holds the one row
C35_Witness ==
    /\ request.at = "idle" /\ request.handler = "none"
    /\ request.device_id = "esp-2" /\ request.device_info = NoDevice
    /\ request.attempts = max_attempts
    /\ \E r \in devices : devices = {r} /\ r.device_id = "esp-1"

\* an OTA POST has been answered without error
Answered == request.at = "idle" /\ request.handler \in Handlers /\ ~request.response.error

\* the device of the request was authenticated in it: by the platform
\* authentication in auto mode, by the accepted online-status update in
\* manual mode
Authenticated ==
    IF request.auth_type = "auto" THEN request.auth = "True" ELSE request.online = "True"

\* C36: after an OTA POST is handled without error, the stored status of
\* the device is 'activated' if the device was authenticated in the request
\* and 'pending' otherwise, and the response carries an activation block,
\* with the verify code of the device and the device id as challenge,
\* exactly when the device was not authenticated.
C36_StatusFollowsAuthentication ==
    Answered =>
        \E row \in devices :
            /\ row.device_id = request.device_id
            /\ row.status = IF Authenticated THEN "activated" ELSE "pending"
            /\ request.response.activation =
                   IF Authenticated THEN NoActivation
                   ELSE Activation(row.verify_code, request.device_id)

-----------------------------------------------------------------------------
(* MQTT notification listener (core/notification.py): start() spawns the   *)
(* worker thread, which creates the paho client, connects, starts the      *)
(* network loop and waits for stop_event; stop() sets the event,           *)
(* disconnects and joins; the network loop hands every message to          *)
(* _on_message                                                             *)

\* the variables of the device registration
DeviceVars == <<devices, request>>

\* the most messages that the broker delivers in one behaviour
MaxMessages == 2

\* the notification_callback is a coroutine function or a plain function
Callbacks == {"coroutine", "function"}

\* msg.payload: whether the bytes are UTF-8, their text, whether the text is
\* a JSON object, another JSON value or no JSON, and the items of the object
Payloads ==
    { [text |-> "{notification:hi,priority:high,type:alert}", utf8 |-> TRUE,
       json |-> "object",
       items |-> {<<"notification", "hi">>, <<"priority", "high">>, <<"type", "alert">>}],
      [text |-> "{priority:high}", utf8 |-> TRUE, json |-> "object",
       items |-> {<<"priority", "high">>}],
      [text |-> "hi", utf8 |-> TRUE, json |-> "invalid", items |-> {}],
      [text |-> "42", utf8 |-> TRUE, json |-> "value", items |-> {}],
      [text |-> "0xff", utf8 |-> FALSE, json |-> "invalid", items |-> {}] }

\* data.get(key, default) of a dict
get(items, key, default) ==
    IF \E item \in items : item[1] = key
    THEN (CHOOSE item \in items : item[1] = key)[2]
    ELSE default

\* one invocation of the notification callback
Call(message, priority, notification_type, callback) ==
    [message |-> message, priority |-> priority, type |-> notification_type,
     how |-> IF callback = "coroutine" THEN "run_coroutine_threadsafe" ELSE "called"]

\* _call_notification_callback: the invocations that it makes
call_notification_callback(message, priority, notification_type, callback) ==
    <<Call(message, priority, notification_type, callback)>>

\* _process_message: json.loads and the three data.get of an object, the
\* except of json.JSONDecodeError for a text that is no JSON; data.get of a
\* JSON value that is no object raises AttributeError, which the outer
\* except logs
process_message(payload, callback) ==
    IF payload.json = "invalid"
    THEN call_notification_callback(payload.text, "normal", "text", callback)
    ELSE IF payload.json = "object"
    THEN call_notification_callback(get(payload.items, "notification", payload.text),
                                    get(payload.items, "priority", "normal"),
                                    get(payload.items, "type", "text"), callback)
    ELSE <<>>

\* _on_message: msg.payload.decode('utf-8'), whose UnicodeDecodeError the
\* except logs, then _process_message
on_message(payload, callback) ==
    IF payload.utf8 THEN process_message(payload, callback) ELSE <<>>

\* __init__ of a listener with the given callback
Listener(callback) == [NoListener EXCEPT !.callback = callback]

\* the worker thread and stop() have both ended
Stopped == listener.stop = "returned" /\ listener.mqtt_thread = "finished"

\* start(): the worker thread is created and started
Start ==
    /\ listener.mqtt_thread = "none"
    /\ listener' = [listener EXCEPT !.mqtt_thread = "create"]
    /\ UNCHANGED <<MemoryVars, DeviceVars>>

\* _mqtt_worker: self.mqtt_client = mqtt.Client(...), and the callbacks
WorkerCreate ==
    /\ listener.mqtt_thread = "create"
    /\ listener' = [listener EXCEPT !.mqtt_client = "Client", !.mqtt_thread = "connect"]
    /\ UNCHANGED <<MemoryVars, DeviceVars>>

\* _mqtt_worker: self.mqtt_client.connect(...), which connects or raises
WorkerConnect(connects) ==
    /\ listener.mqtt_thread = "connect"
    /\ listener' = IF connects
                   THEN [listener EXCEPT !.connected = TRUE, !.mqtt_thread = "loop_start"]
                   ELSE [listener EXCEPT !.mqtt_thread = "finally"]
    /\ UNCHANGED <<MemoryVars, DeviceVars>>

\* _mqtt_worker: self.mqtt_client.loop_start()
WorkerLoopStart ==
    /\ listener.mqtt_thread = "loop_start"
    /\ listener' = [listener EXCEPT !.loop = TRUE, !.mqtt_thread = "wait"]
    /\ UNCHANGED <<MemoryVars, DeviceVars>>

\* _mqtt_worker: the while loop ends when stop_event is set
WorkerWait ==
    /\ listener.mqtt_thread = "wait" /\ listener.stop_event
    /\ listener' = [listener EXCEPT !.mqtt_thread = "finally"]
    /\ UNCHANGED <<MemoryVars, DeviceVars>>

\* _mqtt_worker: the finally clause stops the network loop of the client
WorkerFinally ==
    /\ listener.mqtt_thread = "finally"
    /\ listener' = [listener EXCEPT
                        !.loop = IF listener.mqtt_client # NoneValue THEN FALSE ELSE @,
                        !.mqtt_thread = "finished"]
    /\ UNCHANGED <<MemoryVars, DeviceVars>>

\* stop(): self.stop_event.set()
StopSet ==
    /\ listener.stop = "none" /\ listener.mqtt_thread # "none"
    /\ listener' = [listener EXCEPT !.stop_event = TRUE, !.stop = "check"]
    /\ UNCHANGED <<MemoryVars, DeviceVars>>

\* stop(): if self.mqtt_client
StopCheck ==
    /\ listener.stop = "check"
    /\ listener' = [listener EXCEPT
                        !.stop = IF listener.mqtt_client # NoneValue
                                 THEN "disconnect" ELSE "join"]
    /\ UNCHANGED <<MemoryVars, DeviceVars>>

\* stop(): self.mqtt_client.disconnect()
StopDisconnect ==
    /\ listener.stop = "disconnect"
    /\ listener' = [listener EXCEPT !.connected = FALSE, !.stop = "loop_stop"]
    /\ UNCHANGED <<MemoryVars, DeviceVars>>

\* stop(): self.mqtt_client.loop_stop()
StopLoopStop ==
    /\ listener.stop = "loop_stop"
    /\ listener' = [listener EXCEPT !.loop = FALSE, !.stop = "join"]
    /\ UNCHANGED <<MemoryVars, DeviceVars>>

\* stop(): self.mqtt_thread.join(timeout=5) returns when the worker has
\* finished or the five seconds are over, and stop() returns
StopJoin(timeout) ==
    /\ listener.stop = "join"
    /\ listener.mqtt_thread = "finished" \/ timeout
    /\ listener' = [listener EXCEPT !.stop = "returned"]
    /\ UNCHANGED <<MemoryVars, DeviceVars>>

\* the network loop of a connected client receives a message and calls
\* _on_message
Receive(payload) ==
    /\ listener.loop /\ listener.connected
    /\ listener.received < MaxMessages
    /\ listener' = [listener EXCEPT
                        !.received = @ + 1,
                        !.payload = payload,
                        !.calls = @ \o on_message(payload, listener.callback),
                        !.late = IF Stopped THEN @ + 1 ELSE @]
    /\ UNCHANGED <<MemoryVars, DeviceVars>>

InitListener ==
    /\ faiss_available = TRUE
    /\ index = IndexFlatL2(Dimension)
    /\ metadata = <<>>
    /\ index_file = AbsentIndexFile
    /\ metadata_file = AbsentMetadataFile
    /\ memory_filter = DefaultFilter
    /\ now = 1
    /\ pc = "idle"
    /\ pending = <<>>
    /\ caller = "none"
    /\ last = Step("init", "none")
    /\ faults = 0
    /\ tasks = NoTasks
    /\ devices = {} /\ request = NoRequest
    /\ listener \in {Listener(callback) : callback \in Callbacks}

NextListener ==
    \/ Start
    \/ WorkerCreate
    \/ \E connects \in BOOLEAN : WorkerConnect(connects)
    \/ WorkerLoopStart
    \/ WorkerWait
    \/ WorkerFinally
    \/ StopSet
    \/ StopCheck
    \/ StopDisconnect
    \/ StopLoopStop
    \/ \E timeout \in BOOLEAN : StopJoin(timeout)
    \/ \E payload \in Payloads : Receive(payload)

SpecListener == InitListener /\ [][NextListener]_vars

\* the invocation that the claim expects for a payload
Expected(payload, callback) ==
    IF payload.json = "object"
    THEN Call(get(payload.items, "notification", payload.text),
              get(payload.items, "priority", "normal"),
              get(payload.items, "type", "text"), callback)
    ELSE Call(payload.text, "normal", "text", callback)

\* C37: every message that the listener receives adds exactly one
\* invocation (or one scheduling, for a coroutine callback) of the
\* notification callback: with the 'notification', 'priority' and 'type'
\* items of a payload that is a JSON object, with the raw payload, 'normal'
\* and 'text' of a payload that is no JSON, and with some arguments of any
\* other payload; none is dropped.
C37_OneCallbackPerMessage ==
    [][listener'.received = listener.received + 1 =>
          /\ Len(listener'.calls) = Len(listener.calls) + 1
          /\ SubSeq(listener'.calls, 1, Len(listener.calls)) = listener.calls
          /\ (listener'.payload.utf8 /\ listener'.payload.json # "value") =>
                 listener'.calls[Len(listener'.calls)] =
                     Expected(listener'.payload, listener.callback)
      ]_vars

\* the part of C37 that holds: a payload of UTF-8 text that is a JSON object
\* or no JSON leads to exactly the one invocation
C37_ObjectOrText ==
    [][(/\ listener'.received = listener.received + 1
        /\ listener'.payload.utf8 /\ listener'.payload.json # "value") =>
          listener'.calls = Append(listener.calls,
                                   Expected(listener'.payload, listener.callback))
      ]_vars

\* C38: once stop() has returned and the worker thread has finished, the
\* MQTT client, if one was created, is disconnected and its network loop
\* is stopped, and no notification callback has been invoked since.
C38_StoppedMeansDisconnected ==
    Stopped =>
        /\ listener.mqtt_client # NoneValue =>
               ~listener.connected /\ ~listener.loop
        /\ listener.late = 0

\* the part of C38 that holds: the network loop is stopped and no callback
\* is invoked afterwards
C38_LoopStopped ==
    Stopped => ~listener.loop /\ listener.late = 0

====
